---- MODULE Spec2Model ----
(***************************************************************************)
(* A model of the gaming-vibe controller input handling: the useGamepad    *)
(* poll loop (its current version and the earlier throttled one), the      *)
(* focus cursor of App, App's debounced auto-save, and the on-screen       *)
(* keyboard.                                                               *)
(*                                                                         *)
(* Each part has its own specification over the one set of variables; a    *)
(* specification leaves the variables of the other parts unchanged.        *)
(***************************************************************************)
EXTENDS Integers, Sequences, FiniteSets, TLC

(***************************************************************************)
(* Bounds of the model.                                                    *)
(***************************************************************************)
\* Highest slot of navigator.getGamepads() a pad may occupy.
MaxSlot == 1
\* The hold counter of the observer saturates here (it reads "this many ticks or more").
MaxHold == 2
\* Identifiers uuidv7() hands out in one run: 1..MaxId.
MaxId == 3
\* The clock stops here; it counts tenths of a second.
MaxTime == 12
\* Renders of the consumer of the throttled hook after the first.
MaxRenders == 1
\* Characters in the text input while the overlay is in use.
MaxTyped == 1
\* Poll chains of the overlay that are followed.
MaxChains == 1
\* Elements of the array a file holds at the start.
MaxItems == 2

(***************************************************************************)
(* Program constants.                                                      *)
(***************************************************************************)
BUTTON_A == 0
BUTTON_B == 1
BUTTON_X == 2
BUTTON_Y == 3
BUTTON_START == 9
BUTTON_SELECT == 8
\* 0.5, with axis values counted in tenths (an axis ranges over -10..10).
STICK_THRESHOLD == 5
\* gamepads[0] || gamepads[1] || gamepads[2] || gamepads[3]
NumSlots == 4
\* A standard-mapping pad: buttons[0..15], the D-pad being 12..15.
NumButtons == 16
\* The delay of the auto-save, 500 ms, in tenths of a second.
DEBOUNCE == 5

Slots == 0 .. (NumSlots - 1)

Min(a, b) == IF a < b THEN a ELSE b
Max(a, b) == IF a > b THEN a ELSE b

(***************************************************************************)
(* The host's controller snapshot.  A JavaScript array a[0..n-1] is the    *)
(* sequence a[1..n]; At reads it as the code does, an index past the end   *)
(* giving undefined, which every use in the code treats as false.          *)
(***************************************************************************)
At(arr, index) == IF index + 1 \in DOMAIN arr THEN arr[index + 1] ELSE FALSE

NoPad == [connected |-> FALSE, buttons |-> << >>, axes |-> <<0, 0>>]

PadWith(pressed, ax) ==
    [connected |-> TRUE,
     buttons |-> [i \in 1 .. NumButtons |-> (i - 1) \in pressed],
     axes |-> ax]

\* The buttons the environment presses: the six mapped ones, the D-pad, and
\* one unmapped button (4, a shoulder button) standing for the others.
Pressable == {BUTTON_A, BUTTON_B, BUTTON_X, BUTTON_Y, BUTTON_SELECT, BUTTON_START,
              4, 12, 13, 14, 15}
\* The left stick pushed fully along one axis.
StickPushes == {<<0, -10>>, <<0, 10>>, <<-10, 0>>, <<10, 0>>}
\* What the user works in one run: one button and one push of the stick, each
\* of them pressed or released freely, alone or together.
Uses == [button : Pressable, stick : StickPushes]
UsedSnapshots(use) ==
    {PadWith(s, ax) : s \in SUBSET {use.button}, ax \in {<<0, 0>>, use.stick}}

NoPads == [i \in Slots |-> NoPad]
\* One pad connected, in one of the slots 0..MaxSlot, or none.
OnePadInputs(use) ==
    {NoPads} \cup {[NoPads EXCEPT ![s] = p] : s \in 0 .. MaxSlot, p \in UsedSnapshots(use)}
\* Two slots, each empty or holding a pad on which only A and B are used.
SmallPads == {NoPad} \cup {PadWith(s, <<0, 0>>) : s \in SUBSET {BUTTON_A, BUTTON_B}}
TwoPadInputs == {[NoPads EXCEPT ![0] = p0, ![1] = p1] : p0 \in SmallPads, p1 \in SmallPads}

(***************************************************************************)
(* The callbacks of GamepadConfig.                                         *)
(***************************************************************************)
ButtonCallbacks == {"onA", "onB", "onX", "onY", "onStart", "onSelect"}
DirectionCallbacks == {"onUp", "onDown", "onLeft", "onRight"}
Callbacks == ButtonCallbacks \cup DirectionCallbacks

VARIABLES
    \* useGamepad: the refs of the hook
    lastButtonState,    \* boolean[]: the levels stored by the previous tick; << >> when reset
    lastAxisState,      \* {up, down, left, right}
    animationFrameId,   \* the handle of the latest requested frame; 0 is undefined
    configRef,          \* the callbacks the consumer supplies
    isMounted,
    lastGamepadIndex,   \* the slot polled last; -1 is null
    hasLoggedInit,
    \* the host and the user
    inUse,              \* the button and the stick push the user works in this run
    rafQueue,           \* handles of the requested, not yet run or cancelled, frames
    \* observation
    fired,              \* the callbacks invoked by the last step, in order
    tornDown,           \* the teardown of the hook has run
    polledIdx,          \* the slot the previous tick processed; -1 when it saw no pad
    notified,           \* a connect/disconnect notification came since the previous tick
    tickKind,           \* what the last tick was
    holdRun,            \* per input: ticks it has been active since it was seen inactive
    firesInRun,         \* per input: invocations of its callback in the current hold
    prevA,              \* per slot: button 0 as the previous tick's snapshot had it
    risers,             \* pads whose button 0 went from up to down in the last tick
    \* the useGamepad that polls every pad
    lastButtonStates,   \* Map: slot -> the levels its pad's buttons had
    lastAxisStates,     \* Map: slot -> the directions its pad held
    connectedGamepads,  \* Set: the slots that held a pad at the last tick
    \* the throttled useGamepad
    pollTimers,         \* pending 500 ms timeouts of the no-pad branch
    renders,            \* renders of the consumer after the first
    \* App: the state of the component
    games,              \* Game[]: {id, title, completed}, in storage order
    inputValue,         \* the text input, a sequence of characters
    fileSupported,
    keyboardVisible,
    focusedIndex,
    nextId,             \* the next identifier uuidv7() returns
    lastNav,            \* observation: "onUp" or "onDown" if the last step delivered
                        \* that command alone and the cursor stayed; what Observed
                        \* says of a lone A, X or B; what ListCall says of
                        \* a call of toggleGame or deleteGame; else "none"
    appMounted,
    \* the auto-save of App and the file it writes
    fileHandle,         \* fileStorage's fileHandle is not null
    fileContent,        \* what the file of fileHandle holds
    saveTimeoutRef,     \* saveTimeoutRef.current; 0 stands for null
    timers,             \* the host's pending timeouts: {[id, due, games]}
    now,                \* the clock, in tenths of a second
    saves,              \* observation: the auto-save calls made: how many, the last one
                        \* (where the clock is followed)
    lastChange,         \* observation: when the list last changed with a file open, or -1
    lastCleared,        \* observation: the last timeout that was cleared while pending
    \* OnScreenKeyboard: the state of the component and its poll chains
    selectedRow,
    selectedCol,
    lastDpadRef,        \* the four direction levels of the previous poll
    lastARef,
    lastBRef,
    kbChains,           \* the live poll chains that have run, oldest first: what
                        \* each one's handleGamepad closed over
    kbPending,          \* the chain the last effect run requested, not yet run
    emitted,            \* observation: the commands the last frame sent to App, in order
    kbRun,              \* observation: the hold of A under way with the overlay open
    kbMove,             \* observation: the cursor before the last frame, the edges it saw
    polled,             \* observation: the snapshots the last two ticks read
    pressActs,          \* observation: what the press of A that the last frame read
                        \* has set off since it went down, counted up to 2
    \* fileStorage: the files of the user and the module's handle
    files,              \* per file the user can pick: the document it holds
    openedFile,         \* the file fileHandle names; NoFile when fileHandle is null
    storedHandle,       \* the handle kept in IndexedDB; NoFile when there is none
    fileOp,             \* observation: the last call into fileStorage and its outcome
    session             \* observation: what the start-up found, whether a picker
                        \* has returned a file since

hookVars == <<lastButtonState, lastAxisState, animationFrameId, configRef, isMounted,
              lastGamepadIndex, hasLoggedInit, rafQueue>>
holdVars == <<polledIdx, notified, tickKind, holdRun, firesInRun>>
padVars == <<prevA, risers>>
padsVars == <<lastButtonStates, lastAxisStates, connectedGamepads>>
gamepadVars == <<hookVars, inUse, fired, tornDown, holdVars, padVars, padsVars>>

appVars == <<games, inputValue, fileSupported, keyboardVisible, focusedIndex, nextId>>

saveVars ==
    <<appMounted, fileHandle, fileContent, saveTimeoutRef, timers, now, saves, lastChange,
      lastCleared>>

throttledVars == <<pollTimers, renders>>

keyboardVars ==
    <<selectedRow, selectedCol, lastDpadRef, lastARef, lastBRef, kbChains, kbPending,
      emitted, kbRun, kbMove>>

routerVars == <<polled, pressActs>>

fileVars == <<files, openedFile, storedHandle, fileOp, session>>

vars ==
    <<gamepadVars, throttledVars, appVars, lastNav, saveVars, keyboardVars, routerVars,
      fileVars>>

(***************************************************************************)
(* useGamepad (src/src/useGamepad.ts)                                      *)
(***************************************************************************)
NoAxisState == [up |-> FALSE, down |-> FALSE, left |-> FALSE, right |-> FALSE]

\* requestAnimationFrame's handle: one no pending frame and no ref holds.
FreshHandle(queue, held) ==
    CHOOSE h \in 1 .. (Cardinality(queue) + 2) : h \notin queue /\ h # held

\* gamepads[0] || gamepads[1] || gamepads[2] || gamepads[3], as its slot; -1 when none.
FirstPad(gamepads) ==
    IF \E i \in Slots : gamepads[i].connected
    THEN CHOOSE i \in Slots :
            gamepads[i].connected /\ \A j \in Slots : gamepads[j].connected => i <= j
    ELSE -1

\* The switch over the button index.
ButtonCallback(index) ==
    CASE index = BUTTON_A -> "onA"
      [] index = BUTTON_B -> "onB"
      [] index = BUTTON_X -> "onX"
      [] index = BUTTON_Y -> "onY"
      [] index = BUTTON_START -> "onStart"
      [] index = BUTTON_SELECT -> "onSelect"
      [] OTHER -> "none"

\* A comparison on the level alone, for contrast with the edge.
LevelTriggered(isPressed, wasPressed) == isPressed

\* if (isPressed && !wasPressed)
ButtonEdge(isPressed, wasPressed) == isPressed /\ ~wasPressed

InvokesMissing(cb, config) == <<cb>>

\* configRef.current.onX?.(): a callback that is not supplied is not invoked.
Invoke(cb, config) == IF cb \in config THEN <<cb>> ELSE << >>

\* gamepad.buttons.forEach: the callbacks invoked, in button-index order.
RECURSIVE ButtonLoop(_, _, _, _)
ButtonLoop(buttons, last, config, index) ==
    IF index >= Len(buttons) THEN << >>
    ELSE (IF ButtonEdge(At(buttons, index), At(last, index))
          THEN Invoke(ButtonCallback(index), config)
          ELSE << >>)
         \o ButtonLoop(buttons, last, config, index + 1)

KeepsLast(buttons, last) == last

\* lastButtonState.current[index] = isPressed, for every index.
StoredButtons(buttons, last) ==
    [i \in 1 .. Max(Len(buttons), Len(last)) |->
        IF i <= Len(buttons) THEN buttons[i] ELSE last[i]]

\* D-pad and left analog stick.
UpAtThreshold(pad) == At(pad.buttons, 12) \/ pad.axes[2] <= -STICK_THRESHOLD

DpadUp(pad) == At(pad.buttons, 12) \/ pad.axes[2] < -STICK_THRESHOLD
DpadDown(pad) == At(pad.buttons, 13) \/ pad.axes[2] > STICK_THRESHOLD
DpadLeft(pad) == At(pad.buttons, 14) \/ pad.axes[1] < -STICK_THRESHOLD
DpadRight(pad) == At(pad.buttons, 15) \/ pad.axes[1] > STICK_THRESHOLD

Directions(pad) ==
    [up |-> DpadUp(pad), down |-> DpadDown(pad),
     left |-> DpadLeft(pad), right |-> DpadRight(pad)]

ReversedEdges(dpad, last, config) ==
    (IF dpad.right /\ ~last.right THEN Invoke("onRight", config) ELSE << >>)
    \o (IF dpad.left /\ ~last.left THEN Invoke("onLeft", config) ELSE << >>)
    \o (IF dpad.down /\ ~last.down THEN Invoke("onDown", config) ELSE << >>)
    \o (IF dpad.up /\ ~last.up THEN Invoke("onUp", config) ELSE << >>)

\* if (dpadUp && !lastAxisState.current.up) ... in the order up, down, left, right.
DirectionEdges(dpad, last, config) ==
    (IF dpad.up /\ ~last.up THEN Invoke("onUp", config) ELSE << >>)
    \o (IF dpad.down /\ ~last.down THEN Invoke("onDown", config) ELSE << >>)
    \o (IF dpad.left /\ ~last.left THEN Invoke("onLeft", config) ELSE << >>)
    \o (IF dpad.right /\ ~last.right THEN Invoke("onRight", config) ELSE << >>)

\* The state reset of lines 88-126 for a tick that found a pad in slot currentIndex:
\* the remembered levels the edge comparison of this tick is made against.
BaselineButtons(currentIndex) ==
    LET afterReset == IF lastGamepadIndex # currentIndex THEN << >> ELSE lastButtonState
    IN  IF Len(afterReset) = 0 THEN [i \in 1 .. NumButtons |-> FALSE] ELSE afterReset

KeepsAxes(currentIndex) == lastAxisState

BaselineAxes(currentIndex) ==
    IF lastGamepadIndex # currentIndex THEN NoAxisState ELSE lastAxisState

\* A loop without the flag, for contrast.
NeverStopped == FALSE

\* if (!isMounted.current) return
Stopped == ~isMounted

\* checkGamepad, run by the host for the frame handle.
CheckGamepad(gamepads, handle) ==
    /\ handle \in rafQueue
    /\ IF Stopped
       THEN /\ rafQueue' = rafQueue \ {handle}
            /\ fired' = << >>
            /\ UNCHANGED <<lastButtonState, lastAxisState, animationFrameId, configRef,
                           isMounted, lastGamepadIndex, hasLoggedInit>>
       ELSE LET currentIndex == FirstPad(gamepads)
                next == FreshHandle(rafQueue \ {handle}, animationFrameId)
            IN  /\ hasLoggedInit' = TRUE
                /\ animationFrameId' = next
                /\ rafQueue' = (rafQueue \ {handle}) \cup {next}
                /\ UNCHANGED <<configRef, isMounted>>
                /\ IF currentIndex = -1
                   THEN /\ lastGamepadIndex' = -1
                        /\ lastButtonState' =
                              IF lastGamepadIndex # -1 THEN << >> ELSE lastButtonState
                        /\ lastAxisState' =
                              IF lastGamepadIndex # -1 THEN NoAxisState ELSE lastAxisState
                        /\ fired' = << >>
                   ELSE LET gamepad == gamepads[currentIndex]
                            wasButtons == BaselineButtons(currentIndex)
                            wasAxes == BaselineAxes(currentIndex)
                        IN  /\ lastGamepadIndex' = currentIndex
                            /\ lastButtonState' = StoredButtons(gamepad.buttons, wasButtons)
                            /\ lastAxisState' = Directions(gamepad)
                            /\ fired' = ButtonLoop(gamepad.buttons, wasButtons, configRef, 0)
                                        \o DirectionEdges(Directions(gamepad), wasAxes,
                                                          configRef)

\* handleGamepadEvent: the gamepadconnected / gamepaddisconnected listener.
HandleGamepadEvent ==
    /\ isMounted
    /\ lastButtonState' = << >>
    /\ lastAxisState' = NoAxisState
    /\ hasLoggedInit' = FALSE
    /\ fired' = << >>
    /\ UNCHANGED <<animationFrameId, configRef, isMounted, lastGamepadIndex, rafQueue>>

\* cancelAnimationFrame.  The hook is written not to rely on the host having
\* cancelled the frame in time (it keeps a flag of its own), so both outcomes
\* are modelled: inTime = FALSE leaves the requested frame to run.
CancelAnimationFrame(queue, handle, inTime) ==
    IF inTime THEN queue \ {handle} ELSE queue

\* The cleanup of the mount effect.
Unmount(inTime) ==
    /\ isMounted
    /\ isMounted' = FALSE
    /\ rafQueue' = IF animationFrameId # 0
                   THEN CancelAnimationFrame(rafQueue, animationFrameId, inTime)
                   ELSE rafQueue
    /\ fired' = << >>
    /\ UNCHANGED <<lastButtonState, lastAxisState, animationFrameId, configRef,
                   lastGamepadIndex, hasLoggedInit>>

(***************************************************************************)
(* The earlier, throttled useGamepad (unnamed/part_000): with no pad it    *)
(* waits 500 ms before it requests the next frame.  It reads config        *)
(* directly, keeps no mounted flag and no slot, and its effect runs again  *)
(* on every render of the consumer.  It shares the variables of the hook   *)
(* above; configRef stands for config.                                     *)
(***************************************************************************)
ThrottledCheckGamepad(gamepads, handle) ==
    /\ handle \in rafQueue
    /\ UNCHANGED <<configRef, isMounted, lastGamepadIndex, hasLoggedInit, renders>>
    /\ IF FirstPad(gamepads) = -1
       THEN /\ pollTimers' = pollTimers + 1
            /\ rafQueue' = rafQueue \ {handle}
            /\ fired' = << >>
            /\ UNCHANGED <<lastButtonState, lastAxisState, animationFrameId>>
       ELSE LET gamepad == gamepads[FirstPad(gamepads)]
                wasButtons == IF Len(lastButtonState) = 0
                              THEN [i \in 1 .. Len(gamepad.buttons) |-> FALSE]
                              ELSE lastButtonState
                next == FreshHandle(rafQueue \ {handle}, animationFrameId)
            IN  /\ lastButtonState' = StoredButtons(gamepad.buttons, wasButtons)
                /\ lastAxisState' = Directions(gamepad)
                /\ fired' = ButtonLoop(gamepad.buttons, wasButtons, configRef, 0)
                            \o DirectionEdges(Directions(gamepad), lastAxisState, configRef)
                /\ animationFrameId' = next
                /\ rafQueue' = (rafQueue \ {handle}) \cup {next}
                /\ UNCHANGED pollTimers

\* The callback of the 500 ms timeout.
PollTimeout ==
    /\ pollTimers > 0
    /\ pollTimers' = pollTimers - 1
    /\ fired' = << >>
    /\ IF animationFrameId # 0
       THEN LET next == FreshHandle(rafQueue, animationFrameId)
            IN  /\ animationFrameId' = next
                /\ rafQueue' = rafQueue \cup {next}
       ELSE UNCHANGED <<animationFrameId, rafQueue>>
    /\ UNCHANGED <<lastButtonState, lastAxisState, configRef, isMounted, lastGamepadIndex,
                   hasLoggedInit, renders>>

\* The cleanup of the effect; the host cancels the frame in time.
ThrottledCleanup ==
    IF animationFrameId # 0
    THEN CancelAnimationFrame(rafQueue, animationFrameId, TRUE)
    ELSE rafQueue

\* A render of the consumer: checkGamepad is a new function, so the effect is
\* cleaned up and runs again.
ThrottledEffect ==
    /\ ~tornDown
    /\ renders < MaxRenders
    /\ renders' = renders + 1
    /\ LET next == FreshHandle(ThrottledCleanup, animationFrameId)
       IN  /\ animationFrameId' = next
           /\ rafQueue' = ThrottledCleanup \cup {next}
    /\ fired' = << >>
    /\ UNCHANGED <<lastButtonState, lastAxisState, configRef, isMounted, lastGamepadIndex,
                   hasLoggedInit, pollTimers>>

ThrottledUnmount ==
    /\ ~tornDown
    /\ tornDown' = TRUE
    /\ rafQueue' = ThrottledCleanup
    /\ fired' = << >>
    /\ UNCHANGED <<lastButtonState, lastAxisState, animationFrameId, configRef, isMounted,
                   lastGamepadIndex, hasLoggedInit, pollTimers, renders>>

(***************************************************************************)
(* The observer of the poll loop: what the ticks read, kept beside the     *)
(* hook's own state so that the claims can speak of consecutive ticks.     *)
(***************************************************************************)
Count(cb, seq) == Cardinality({k \in DOMAIN seq : seq[k] = cb})

\* The level of the input behind a callback, in one snapshot.
InputActive(cb, pad) ==
    CASE cb = "onA" -> At(pad.buttons, BUTTON_A)
      [] cb = "onB" -> At(pad.buttons, BUTTON_B)
      [] cb = "onX" -> At(pad.buttons, BUTTON_X)
      [] cb = "onY" -> At(pad.buttons, BUTTON_Y)
      [] cb = "onStart" -> At(pad.buttons, BUTTON_START)
      [] cb = "onSelect" -> At(pad.buttons, BUTTON_SELECT)
      [] cb = "onUp" -> At(pad.buttons, 12) \/ pad.axes[2] < -STICK_THRESHOLD
      [] cb = "onDown" -> At(pad.buttons, 13) \/ pad.axes[2] > STICK_THRESHOLD
      [] cb = "onLeft" -> At(pad.buttons, 14) \/ pad.axes[1] < -STICK_THRESHOLD
      [] cb = "onRight" -> At(pad.buttons, 15) \/ pad.axes[1] > STICK_THRESHOLD

NoRuns == [cb \in Callbacks |-> -1]
NoFires == [cb \in Callbacks |-> 0]

\* holdRun[cb]: -1 while the input has not been seen inactive since the polled pad
\* was first seen, changed slot, or a notification came; 0 when the last tick read
\* it inactive; n >= 1 when the last n ticks (MaxHold: or more) read it active, all
\* of them on the same slot with no notification in between.
ObserveHold(gamepads) ==
    LET idx == FirstPad(gamepads)
        continuing == polledIdx = idx /\ ~notified
    IN  IF tornDown
        THEN /\ tickKind' = IF idx # -1 /\ \E cb \in Callbacks : InputActive(cb, gamepads[idx])
                            THEN "stopped, input active"
                            ELSE "stopped"
             /\ UNCHANGED <<polledIdx, notified, holdRun, firesInRun>>
        ELSE /\ polledIdx' = idx
             /\ notified' = FALSE
             /\ tickKind' = IF idx = -1 THEN "absent"
                            ELSE IF polledIdx = -1 THEN "first"
                            ELSE IF polledIdx # idx THEN "changed"
                            ELSE IF notified THEN "notified"
                            ELSE "continued"
             /\ holdRun' =
                  [cb \in Callbacks |->
                     IF idx = -1 THEN -1
                     ELSE IF ~InputActive(cb, gamepads[idx]) THEN 0
                     ELSE IF continuing /\ holdRun[cb] >= 0
                          THEN Min(holdRun[cb] + 1, MaxHold)
                          ELSE -1]
             /\ firesInRun' =
                  [cb \in Callbacks |->
                     IF holdRun'[cb] >= 1
                     THEN Min((IF holdRun[cb] = 0 THEN 0 ELSE firesInRun[cb])
                              + Count(cb, fired'), 2)
                     ELSE 0]

\* Button 0 of each slot, as a tick's snapshot has it.
LevelA(pad) == IF ~pad.connected THEN "absent"
               ELSE IF At(pad.buttons, BUTTON_A) THEN "down" ELSE "up"

ObservePads(gamepads) ==
    IF tornDown
    THEN UNCHANGED <<prevA, risers>>
    ELSE /\ prevA' = [s \in Slots |-> LevelA(gamepads[s])]
         /\ risers' = Cardinality({s \in Slots :
                                     prevA[s] = "up" /\ LevelA(gamepads[s]) = "down"})

(***************************************************************************)
(* fileStorage: the documents files hold, how a list is written and read,  *)
(* and the three calls App makes.  A member of a parsed object is noted    *)
(* with its JSON type and what it holds.                                   *)
(***************************************************************************)
NoFile == ""

Cancel == "cancel"

\* The files the user can pick: the file of earlier sessions and another one.
FileNames == {"games.json", "other.json"}

Blank == [text |-> "blank", top |-> "none", items |-> << >>]

NotJSON == [text |-> "not JSON", top |-> "none", items |-> << >>]

NotAList == [text |-> "JSON", top |-> "object", items |-> << >>]

Member(type, value) == [type |-> type, value |-> value]

CompletedAsText(game) ==
    [type |-> "object",
     id |-> Member("string", game.id),
     title |-> Member("string", game.title),
     completed |-> Member("string", game.completed)]

\* What JSON.stringify writes for one Game: an object with a string id, a
\* string title and a boolean completed.
GameJSON(game) ==
    [type |-> "object",
     id |-> Member("string", game.id),
     title |-> Member("string", game.title),
     completed |-> Member("boolean", game.completed)]

\* JSON.stringify(games, null, 2): an array with one object per game, in order.
stringify(gs) ==
    [text |-> "JSON", top |-> "array", items |-> [i \in DOMAIN gs |-> GameJSON(gs[i])]]

AnyObject(item) == item.type = "object"

\* The shape test of the filter.
IsGame(item) ==
    /\ item.type = "object"
    /\ item.id.type = "string"
    /\ item.title.type = "string"
    /\ item.completed.type = "boolean"

\* A parsed object that passed the filter, read as a Game.
AsGame(item) ==
    [id |-> item.id.value, title |-> item.title.value, completed |-> item.completed.value]

\* From file.text() to the return: blank content is the empty list; content
\* that is not JSON, or JSON that is not an array, throws; of an array the
\* items of the shape of a Game are kept, with a warning if some were not.
ReadGames(doc) ==
    IF doc.text = "blank"
    THEN [threw |-> FALSE, games |-> << >>, warnings |-> 0]
    ELSE IF doc.text # "JSON" \/ doc.top # "array"
    THEN [threw |-> TRUE, games |-> << >>, warnings |-> 0]
    ELSE LET kept == SelectSeq(doc.items, IsGame)
         IN  [threw |-> FALSE,
              games |-> [i \in DOMAIN kept |-> AsGame(kept[i])],
              warnings |-> IF Len(kept) # Len(doc.items) THEN 1 ELSE 0]

\* What a call returns to App: null, or a list.
Null == [null |-> TRUE, games |-> << >>]

Games(gs) == [null |-> FALSE, games |-> gs]

CancelClosesFile(pick, disk, fs) ==
    IF pick = Cancel
    THEN [fileHandle |-> NoFile, db |-> fs.db, result |-> Null, errors |-> 0,
          warnings |-> 0]
    ELSE LET read == ReadGames(disk[pick])
         IN  [fileHandle |-> pick,
              db |-> pick,
              result |-> IF read.threw THEN Null ELSE Games(read.games),
              errors |-> IF read.threw THEN 1 ELSE 0,
              warnings |-> read.warnings]

\* loadGamesFromFile(), the API being supported.  pick is the file the user
\* picks in showOpenFilePicker, or Cancel (the picker rejects with AbortError;
\* nothing is logged).  fs is the module's fileHandle and the IndexedDB entry.
\* The handle is kept before the file is read.
loadGamesFromFile(pick, disk, fs) ==
    IF pick = Cancel
    THEN [fileHandle |-> fs.fileHandle, db |-> fs.db, result |-> Null, errors |-> 0,
          warnings |-> 0]
    ELSE LET read == ReadGames(disk[pick])
         IN  [fileHandle |-> pick,
              db |-> pick,
              result |-> IF read.threw THEN Null ELSE Games(read.games),
              errors |-> IF read.threw THEN 1 ELSE 0,
              warnings |-> read.warnings]

\* saveGamesToFile(games), the API being supported.  With no handle the user
\* is asked for a file in showSaveFilePicker (pick); with a handle nobody is
\* asked.  The list is written to the file of the handle.
saveGamesToFile(gs, pick, disk, fs) ==
    IF fs.fileHandle = NoFile /\ pick = Cancel
    THEN [fileHandle |-> fs.fileHandle, db |-> fs.db, disk |-> disk, success |-> FALSE,
          errors |-> 0]
    ELSE LET handle == IF fs.fileHandle = NoFile THEN pick ELSE fs.fileHandle
         IN  [fileHandle |-> handle,
              db |-> IF fs.fileHandle = NoFile THEN pick ELSE fs.db,
              disk |-> [disk EXCEPT ![handle] = stringify(gs)],
              success |-> TRUE,
              errors |-> 0]

HandleBeforePermission(granted, disk, fs) ==
    IF fs.db = NoFile
    THEN [fileHandle |-> fs.fileHandle, db |-> fs.db, result |-> Null, errors |-> 0,
          warnings |-> 0]
    ELSE IF ~granted
    THEN [fileHandle |-> fs.db, db |-> NoFile, result |-> Null, errors |-> 0,
          warnings |-> 0]
    ELSE LET read == ReadGames(disk[fs.db])
         IN  [fileHandle |-> fs.db,
              db |-> IF read.threw THEN NoFile ELSE fs.db,
              result |-> IF read.threw THEN Null ELSE Games(read.games),
              errors |-> IF read.threw THEN 1 ELSE 0,
              warnings |-> read.warnings]

\* loadLastOpenedFile(), the API being supported.  granted: queryPermission
\* or, failing that, requestPermission answered 'granted'.  Without a stored
\* handle, or without the permission (the stored handle is then cleared), the
\* result is null and fileHandle is left alone.  A read that throws is logged,
\* clears the stored handle and returns null, after fileHandle was set.
loadLastOpenedFile(granted, disk, fs) ==
    IF fs.db = NoFile
    THEN [fileHandle |-> fs.fileHandle, db |-> fs.db, result |-> Null, errors |-> 0,
          warnings |-> 0]
    ELSE IF ~granted
    THEN [fileHandle |-> fs.fileHandle, db |-> NoFile, result |-> Null, errors |-> 0,
          warnings |-> 0]
    ELSE LET read == ReadGames(disk[fs.db])
         IN  [fileHandle |-> fs.db,
              db |-> IF read.threw THEN NoFile ELSE fs.db,
              result |-> IF read.threw THEN Null ELSE Games(read.games),
              errors |-> IF read.threw THEN 1 ELSE 0,
              warnings |-> read.warnings]

NoOp == [op |-> "none", pick |-> NoFile, outcome |-> "none", errors |-> 0, warnings |-> 0]

NoSession == [started |-> FALSE, declined |-> FALSE, picked |-> FALSE]

\* No file is involved: nothing on disk was opened and nothing is stored.
InitNoDisk ==
    /\ files = [f \in FileNames |-> Blank]
    /\ openedFile = NoFile
    /\ storedHandle = NoFile
    /\ fileOp = NoOp
    /\ session = NoSession

(***************************************************************************)
(* Specification of useGamepad with one pad, in slot 0..MaxSlot.           *)
(***************************************************************************)
InitHook ==
    /\ lastButtonState = << >>
    /\ lastAxisState = NoAxisState
    /\ animationFrameId = 1
    /\ configRef = Callbacks
    /\ isMounted = TRUE
    /\ lastGamepadIndex = -1
    /\ hasLoggedInit = FALSE
    /\ rafQueue = {1}
    /\ fired = << >>
    /\ tornDown = FALSE
    /\ polledIdx = -1
    /\ notified = FALSE
    /\ tickKind = "init"
    /\ holdRun = NoRuns
    /\ firesInRun = NoFires
    /\ prevA = [s \in Slots |-> "absent"]
    /\ risers = 0
    /\ lastButtonStates = [i \in {} |-> << >>]
    /\ lastAxisStates = [i \in {} |-> NoAxisState]
    /\ connectedGamepads = {}
    /\ pollTimers = 0
    /\ renders = 0

\* OnScreenKeyboard as constructed: the cursor on the first key, no chain.
InitKeyboard ==
    /\ selectedRow = 0
    /\ selectedCol = 0
    /\ lastDpadRef = [up |-> FALSE, down |-> FALSE, left |-> FALSE, right |-> FALSE]
    /\ lastARef = FALSE
    /\ lastBRef = FALSE
    /\ kbChains = << >>
    /\ kbPending = << >>
    /\ emitted = << >>
    /\ kbRun = [prevA |-> FALSE, len |-> 0, fires |-> 0]
    /\ kbMove = [row |-> 0, col |-> 0, open |-> FALSE, edges |-> {}]
    /\ polled = [before |-> NoPad, now |-> NoPad]
    /\ pressActs = 0

\* No file has been opened: fileHandle is null and nothing is scheduled.
InitNoFile ==
    /\ appMounted = TRUE
    /\ fileHandle = FALSE
    /\ fileContent = [exists |-> FALSE, games |-> << >>]
    /\ saveTimeoutRef = 0
    /\ timers = {}
    /\ now = 0
    /\ saves = [count |-> 0, at |-> 0, games |-> << >>]
    /\ lastChange = -1
    /\ lastCleared = [due |-> -1, games |-> << >>]

\* The component as constructed, with nothing typed and no game.
InitAppIdle ==
    /\ games = << >>
    /\ inputValue = << >>
    /\ fileSupported = FALSE
    /\ keyboardVisible = FALSE
    /\ focusedIndex = 0
    /\ nextId = 1
    /\ lastNav = "none"
    /\ InitNoFile
    /\ InitKeyboard
    /\ InitNoDisk

InitGamepad == InitHook /\ inUse \in Uses /\ InitAppIdle

Tick ==
    \E gamepads \in OnePadInputs(inUse), handle \in rafQueue :
        /\ CheckGamepad(gamepads, handle)
        /\ ObserveHold(gamepads)
        /\ UNCHANGED <<inUse, tornDown, padVars, padsVars, appVars, lastNav, saveVars, throttledVars, keyboardVars, routerVars, fileVars>>

Notify ==
    /\ HandleGamepadEvent
    /\ notified' = TRUE
    /\ tickKind' = "event"
    /\ holdRun' = NoRuns
    /\ firesInRun' = NoFires
    /\ UNCHANGED <<inUse, polledIdx, tornDown, padVars, padsVars, appVars, lastNav, saveVars, throttledVars, keyboardVars, routerVars, fileVars>>

Teardown ==
    \E inTime \in BOOLEAN :
        /\ Unmount(inTime)
        /\ tornDown' = TRUE
        /\ tickKind' = "teardown"
        /\ UNCHANGED <<inUse, polledIdx, notified, holdRun, firesInRun, padVars, padsVars,
                       appVars, lastNav, saveVars, throttledVars, keyboardVars, routerVars, fileVars>>

NextGamepad == Tick \/ Notify \/ Teardown

SpecGamepad == InitGamepad /\ [][NextGamepad]_vars

(***************************************************************************)
(* Specification of useGamepad with two slots in use.                      *)
(***************************************************************************)
TickTwoPads ==
    \E gamepads \in TwoPadInputs, handle \in rafQueue :
        /\ CheckGamepad(gamepads, handle)
        /\ ObserveHold(gamepads)
        /\ ObservePads(gamepads)
        /\ UNCHANGED <<inUse, tornDown, padsVars, appVars, lastNav, saveVars, throttledVars, keyboardVars, routerVars, fileVars>>

InitTwoPads ==
    InitHook /\ inUse = [button |-> BUTTON_A, stick |-> <<0, -10>>] /\ InitAppIdle

NextTwoPads == TickTwoPads \/ Notify

SpecTwoPads == InitTwoPads /\ [][NextTwoPads]_vars

(***************************************************************************)
(* Specification of useGamepad with one pad in slot 0 on which several     *)
(* buttons go down together and the stick rests at or near the threshold.  *)
(***************************************************************************)
\* The buttons a snapshot holds down: none, two or all of the mapped ones, an
\* unmapped one, the D-pad, one D-pad button, or all of these.
RouterPresses ==
    {{}, {BUTTON_A, BUTTON_START},
     {BUTTON_A, BUTTON_B, BUTTON_X, BUTTON_Y, BUTTON_SELECT, BUTTON_START},
     {4}, {12}, {12, 13, 14, 15}, Pressable}
\* The stick: at rest, exactly at the threshold either way, just beyond it.
RouterAxes == {<<0, 0>>, <<5, 5>>, <<-5, -5>>, <<0, -6>>, <<6, 6>>}
RouterSnapshots == {PadWith(s, ax) : s \in RouterPresses, ax \in RouterAxes}

RouterTick ==
    \E pad \in RouterSnapshots, handle \in rafQueue :
        /\ CheckGamepad([NoPads EXCEPT ![0] = pad], handle)
        /\ ObserveHold([NoPads EXCEPT ![0] = pad])
        /\ polled' = [before |-> polled.now, now |-> pad]
        /\ pressActs' = pressActs
        /\ UNCHANGED <<inUse, tornDown, padVars, padsVars, appVars, lastNav, saveVars, throttledVars,
                       keyboardVars, fileVars>>

InitRouter ==
    InitHook /\ inUse = [button |-> BUTTON_A, stick |-> <<0, -10>>] /\ InitAppIdle

NextRouter == RouterTick

SpecRouter == InitRouter /\ [][NextRouter]_vars

(***************************************************************************)
(* Specification of the throttled useGamepad.                              *)
(***************************************************************************)
InitThrottled ==
    InitHook /\ inUse = [button |-> BUTTON_A, stick |-> <<0, -10>>] /\ InitAppIdle

ThrottledTick ==
    \E gamepads \in OnePadInputs(inUse), handle \in rafQueue :
        /\ ThrottledCheckGamepad(gamepads, handle)
        /\ UNCHANGED <<inUse, tornDown, holdVars, padVars, padsVars, appVars, lastNav, saveVars, keyboardVars, routerVars, fileVars>>

ThrottledTimeout ==
    /\ PollTimeout
    /\ UNCHANGED <<inUse, tornDown, holdVars, padVars, padsVars, appVars, lastNav, saveVars, keyboardVars, routerVars, fileVars>>

ThrottledRender ==
    /\ ThrottledEffect
    /\ UNCHANGED <<inUse, tornDown, holdVars, padVars, padsVars, appVars, lastNav, saveVars, keyboardVars, routerVars, fileVars>>

ThrottledTeardown ==
    /\ ThrottledUnmount
    /\ UNCHANGED <<inUse, holdVars, padVars, padsVars, appVars, lastNav, saveVars, keyboardVars, routerVars, fileVars>>

NextThrottled == ThrottledTick \/ ThrottledTimeout \/ ThrottledRender \/ ThrottledTeardown

SpecThrottled == InitThrottled /\ [][NextThrottled]_vars

(***************************************************************************)
(* App: the list of games, the text input, the overlay flag and the focus  *)
(* cursor.  A handler runs against the values of the render it was created *)
(* in (c); its state updates are queued and applied to the pending state   *)
(* (u), which React commits once the handlers of the event have returned.  *)
(* An absolute update (setGames(x)) writes a value computed from c, a      *)
(* functional one (setFocusedIndex(prev => ...)) reads u.                  *)
(***************************************************************************)
\* What the text input is made to hold: nothing, a title, a blank.
InputValues == {<< >>, <<"A">>, <<" ">>}

RECURSIVE TrimStart(_)
TrimStart(text) ==
    IF text # << >> /\ Head(text) = " " THEN TrimStart(Tail(text)) ELSE text

RECURSIVE TrimEnd(_)
TrimEnd(text) ==
    IF text # << >> /\ text[Len(text)] = " "
    THEN TrimEnd(SubSeq(text, 1, Len(text) - 1))
    ELSE text

Trim(text) == TrimEnd(TrimStart(text))

IsCompleted(game) == game.completed

IsIncomplete(game) == ~game.completed

StorageOrder(gs) == gs

\* [...games].sort((a, b) => Number(a.completed) - Number(b.completed)): the sort
\* is stable, so each group keeps the storage order.
sortedGames(gs) == SelectSeq(gs, IsIncomplete) \o SelectSeq(gs, IsCompleted)

totalElements(supported, gs) == (IF supported THEN 2 ELSE 0) + 2 + Len(gs) * 2

\* The values the current render hands to its handlers.
Render ==
    [games |-> games, inputValue |-> inputValue, fileSupported |-> fileSupported,
     keyboardVisible |-> keyboardVisible, focusedIndex |-> focusedIndex,
     nextId |-> nextId]

Commit(u) ==
    /\ games' = u.games
    /\ inputValue' = u.inputValue
    /\ fileSupported' = u.fileSupported
    /\ keyboardVisible' = u.keyboardVisible
    /\ focusedIndex' = u.focusedIndex
    /\ nextId' = u.nextId

\* uuidv7(): an identifier no earlier call returned.
addGame(c, u) ==
    IF Trim(c.inputValue) = << >>
    THEN u
    ELSE [u EXCEPT !.games = Append(c.games, [id |-> u.nextId, title |-> c.inputValue,
                                               completed |-> FALSE]),
                   !.inputValue = << >>,
                   !.nextId = u.nextId + 1]

ToggleAndSort(id, c, u) ==
    LET toggled == [i \in DOMAIN c.games |->
                       IF c.games[i].id = id
                       THEN [c.games[i] EXCEPT !.completed = ~c.games[i].completed]
                       ELSE c.games[i]]
    IN  [u EXCEPT !.games = sortedGames(toggled)]

toggleGame(id, c, u) ==
    [u EXCEPT !.games = [i \in DOMAIN c.games |->
                            IF c.games[i].id = id
                            THEN [c.games[i] EXCEPT !.completed = ~c.games[i].completed]
                            ELSE c.games[i]]]

deleteGame(id, c, u) ==
    LET Others(game) == game.id # id
    IN  [u EXCEPT !.games = SelectSeq(c.games, Others)]

\* The file picker is dismissed: loadGamesFromFile returns null, saveGamesToFile
\* returns false, and neither handler sets any state.
handleLoadFile(c, u) == u

handleSaveFile(c, u) == u

FocusWraps(c, u) ==
    IF ~c.keyboardVisible
    THEN [u EXCEPT !.focusedIndex =
                      (u.focusedIndex + 1) % totalElements(c.fileSupported, c.games)]
    ELSE u

UpIgnoresOverlay(c, u) == [u EXCEPT !.focusedIndex = Max(0, u.focusedIndex - 1)]

onUp(c, u) ==
    IF ~c.keyboardVisible
    THEN [u EXCEPT !.focusedIndex = Max(0, u.focusedIndex - 1)]
    ELSE u

onDown(c, u) ==
    IF ~c.keyboardVisible
    THEN [u EXCEPT !.focusedIndex =
                      Min(totalElements(c.fileSupported, c.games) - 1, u.focusedIndex + 1)]
    ELSE u

AMovesFocus(c, u) ==
    IF c.keyboardVisible
    THEN u
    ELSE [u EXCEPT !.focusedIndex = Min(c.focusedIndex, totalElements(c.fileSupported, u.games) - 1)]

onA(c, u) ==
    LET first == IF c.fileSupported THEN 2 ELSE 0
        sorted == sortedGames(c.games)
        slot == c.focusedIndex - first - 2
    IN  IF c.keyboardVisible THEN u
        ELSE IF c.fileSupported /\ c.focusedIndex = 0 THEN handleLoadFile(c, u)
        ELSE IF c.fileSupported /\ c.focusedIndex = 1 THEN handleSaveFile(c, u)
        ELSE IF c.focusedIndex = first THEN [u EXCEPT !.keyboardVisible = TRUE]
        ELSE IF c.focusedIndex = first + 1 THEN addGame(c, u)
        ELSE IF slot >= 0 /\ slot < 2 * Len(sorted)
             THEN IF slot % 2 = 0
                  THEN toggleGame(sorted[(slot \div 2) + 1].id, c, u)
                  ELSE deleteGame(sorted[(slot \div 2) + 1].id, c, u)
        ELSE u

onB(c, u) == IF c.keyboardVisible THEN [u EXCEPT !.keyboardVisible = FALSE] ELSE u

XOpensAnywhere(c, u) ==
    IF ~c.keyboardVisible THEN [u EXCEPT !.keyboardVisible = TRUE] ELSE u

onX(c, u) ==
    IF ~c.keyboardVisible /\ c.focusedIndex = (IF c.fileSupported THEN 2 ELSE 0)
    THEN [u EXCEPT !.keyboardVisible = TRUE]
    ELSE u

\* The config App passes to useGamepad: it supplies these five callbacks, and
\* the hook skips the ones it does not find (onY, onStart, ...).
AppCallback(cb, c, u) ==
    CASE cb = "onUp" -> onUp(c, u)
      [] cb = "onDown" -> onDown(c, u)
      [] cb = "onA" -> onA(c, u)
      [] cb = "onB" -> onB(c, u)
      [] cb = "onX" -> onX(c, u)
      [] OTHER -> u

\* The callbacks of one tick, invoked in the order the hook fires them, all from
\* the same render.
RECURSIVE Deliver(_, _, _)
Deliver(cbs, c, u) ==
    IF cbs = << >> THEN u ELSE Deliver(Tail(cbs), c, AppCallback(Head(cbs), c, u))

\* What one tick of the hook can fire of App's callbacks: the buttons in index
\* order (A, B, X), then up and down.
AppOrder == <<"onA", "onB", "onX", "onUp", "onDown">>

RECURSIVE Chosen(_, _)
Chosen(S, i) ==
    IF i > Len(AppOrder)
    THEN << >>
    ELSE (IF i \in S THEN <<AppOrder[i]>> ELSE << >>) \o Chosen(S, i + 1)

FiredSeqs == {Chosen(S, 1) : S \in (SUBSET (1 .. Len(AppOrder))) \ {{}}}

NoNav == "none"

(***************************************************************************)
(* The auto-save effect of App and the host's timeouts.                    *)
(***************************************************************************)
NoSaves == [count |-> 0, at |-> 0, games |-> << >>]

NoCleared == [due |-> -1, games |-> << >>]

KeepsTimeout(table, id) == table

\* clearTimeout(id): the timeout of that identifier, if it is pending, is dropped.
clearTimeout(table, id) == {t \in table : t.id # id}

\* window.setTimeout returns an identifier that no pending timeout has.
NewTimeoutId(table) ==
    CHOOSE id \in 1 .. (Cardinality(table) + 1) : \A t \in table : t.id # id

FiresAtOnce(armedAt) == armedAt

\* setTimeout(..., 500): when the timeout armed at armedAt is due.
TimeoutDue(armedAt) == armedAt + DEBOUNCE

StaleArgument(before, after) == before

\* saveGamesToFile(games) in the timeout's callback: games is the list of the
\* render whose effect armed the timeout, that is the list after the change.
AutoSaveArgument(before, after) == after

CleanupSkipped(table, ref) == table

\* The cleanup returned by the auto-save effect: if saveTimeoutRef holds a
\* timeout, clear it.  It runs before the effect runs again and on unmount.
AutoSaveCleanup(table, ref) == IF ref # 0 THEN clearTimeout(table, ref) ELSE table

\* The hasOpenFile() test of the auto-save effect with the guard removed.
AlwaysArms(handle) == TRUE

\* hasOpenFile(): a file handle is held.
hasOpenFile(handle) == handle

\* useEffect(..., [games]) with its cleanup: it runs after a commit that set a
\* new list.  The cleanup of the earlier run clears the timeout of
\* saveTimeoutRef; the new run, if a file is open, clears it again and arms a
\* timeout for the new list.
AutoSave(after, rerun, handle) ==
    LET cleaned == AutoSaveCleanup(timers, saveTimeoutRef)
        id == NewTimeoutId(cleaned)
        dropped == {t \in timers : t \notin cleaned}
    IN  IF ~rerun
        THEN UNCHANGED <<saveTimeoutRef, timers, lastChange, lastCleared>>
        ELSE /\ IF hasOpenFile(handle)
                THEN /\ saveTimeoutRef' = id
                     /\ timers' = cleaned \cup
                                     {[id |-> id, due |-> TimeoutDue(now),
                                       games |-> AutoSaveArgument(games, after)]}
                     /\ lastChange' = now
                ELSE /\ timers' = cleaned
                     /\ lastChange' = -1
                     /\ UNCHANGED saveTimeoutRef
             /\ lastCleared' = IF dropped = {}
                               THEN lastCleared
                               ELSE LET t == CHOOSE t \in dropped : TRUE
                                    IN  [due |-> t.due, games |-> t.games]

(***************************************************************************)
(* Specification of App with no file established (every picker dismissed). *)
(***************************************************************************)
InitApp ==
    /\ InitHook
    /\ InitKeyboard
    /\ InitNoDisk
    /\ inUse = [button |-> BUTTON_A, stick |-> <<0, -10>>]
    /\ games = << >>
    /\ inputValue = << >>
    /\ fileSupported \in BOOLEAN
    /\ keyboardVisible = FALSE
    /\ focusedIndex = 0
    /\ nextId = 1
    /\ lastNav = NoNav
    /\ InitNoFile

\* A step of App commits the pending state u and runs the effects of the
\* commit; the hook is left alone.
AppStep(u, nav) ==
    /\ appMounted
    /\ Commit(u)
    /\ AutoSave(u.games, u.games # games, fileHandle)
    /\ lastNav' = nav
    /\ UNCHANGED <<gamepadVars, throttledVars, keyboardVars, routerVars, fileVars, appMounted, fileHandle, fileContent, now, saves>>

\* uuidv7() has an identifier left for what the step adds.
HasId(u) == u.nextId <= MaxId + 1

\* The cursor is on a slot of an item that is not at the same place in the
\* list as stored and in the list as displayed.
OnDisplacedItem ==
    LET slot == focusedIndex - (IF fileSupported THEN 4 ELSE 2)
    IN  /\ slot >= 0
        /\ slot < 2 * Len(games)
        /\ sortedGames(games)[(slot \div 2) + 1] # games[(slot \div 2) + 1]

\* What is noted of a tick that delivers one command: A or X with the
\* overlay closed, B with the overlay open; and of a tick that delivers
\* commands other than B with the overlay open.
Observed(cbs) ==
    IF cbs = <<"onA">> /\ ~keyboardVisible
    THEN IF OnDisplacedItem THEN "onA, displaced item" ELSE "onA"
    ELSE IF cbs = <<"onX">> /\ ~keyboardVisible THEN "onX"
    ELSE IF cbs = <<"onB">> /\ keyboardVisible THEN "onB"
    ELSE IF keyboardVisible /\ \A i \in DOMAIN cbs : cbs[i] # "onB" THEN "captured"
    ELSE NoNav

\* A tick of useGamepad that fires cbs.
GamepadTick(cbs) ==
    /\ HasId(Deliver(cbs, Render, Render))
    /\ AppStep(Deliver(cbs, Render, Render),
               IF /\ cbs \in {<<"onUp">>, <<"onDown">>}
                  /\ ~keyboardVisible
                  /\ Deliver(cbs, Render, Render).focusedIndex = focusedIndex
               THEN cbs[1]
               ELSE Observed(cbs))

GamepadCallbacks == \E cbs \in FiredSeqs : GamepadTick(cbs)

\* onChange of the text input.
ChangeInput ==
    \E value \in InputValues \ {inputValue} :
        AppStep([Render EXCEPT !.inputValue = value], NoNav)

\* The Add button, or Enter in the text input.
ClickAdd ==
    /\ HasId(addGame(Render, Render))
    /\ AppStep(addGame(Render, Render), NoNav)

ClickToggle ==
    \E i \in DOMAIN games : AppStep(toggleGame(games[i].id, Render, Render), NoNav)

ClickDelete ==
    \E i \in DOMAIN games : AppStep(deleteGame(games[i].id, Render, Render), NoNav)

\* onFocus of the text input while a pad is connected.
FocusInput ==
    /\ ~keyboardVisible
    /\ AppStep([Render EXCEPT !.keyboardVisible = TRUE], NoNav)

\* The callbacks App hands to the on-screen keyboard for its confirm and close
\* keys; the keyboard is mounted with visible = keyboardVisible and acts only
\* while visible.
KeyboardEnter ==
    /\ keyboardVisible
    /\ HasId(addGame(Render, Render))
    /\ AppStep([addGame(Render, Render) EXCEPT !.keyboardVisible = FALSE], NoNav)

KeyboardClose ==
    /\ keyboardVisible
    /\ AppStep([Render EXCEPT !.keyboardVisible = FALSE], NoNav)

NextApp ==
    \/ GamepadCallbacks
    \/ ChangeInput
    \/ ClickAdd
    \/ ClickToggle
    \/ ClickDelete
    \/ FocusInput
    \/ KeyboardEnter
    \/ KeyboardClose

SpecApp == InitApp /\ [][NextApp]_vars

(***************************************************************************)
(* Specification of the auto-save: a file can be opened, the list changes, *)
(* time passes.  A timeout runs when it is due: the clock does not pass a  *)
(* pending timeout.                                                        *)
(***************************************************************************)
\* What a file the user opens holds.
LoadedLists == {<< >>, <<[id |-> 0, title |-> <<"A">>, completed |-> FALSE]>>}

\* The Open File button, with a file picked: loadGamesFromFile keeps the
\* handle and returns the file's list, which handleLoadFile sets.
LoadFile ==
    \E loaded \in LoadedLists :
        /\ appMounted
        /\ fileSupported
        /\ fileHandle' = TRUE
        /\ fileContent' = [exists |-> TRUE, games |-> loaded]
        /\ games' = loaded
        /\ AutoSave(loaded, TRUE, TRUE)
        /\ lastNav' = NoNav
        /\ UNCHANGED <<gamepadVars, throttledVars, keyboardVars, routerVars, fileVars, inputValue, fileSupported, keyboardVisible,
                       focusedIndex, nextId, appMounted, now, saves>>

\* The Save As button: saveGamesToFile(games), asking for a file if none is
\* open (a file is picked), writes the list of the current render.
SaveFile ==
    /\ appMounted
    /\ fileSupported
    /\ fileHandle' = TRUE
    /\ fileContent' = [exists |-> TRUE, games |-> games]
    /\ UNCHANGED <<gamepadVars, throttledVars, keyboardVars, routerVars, fileVars, appVars, lastNav, appMounted, saveTimeoutRef, timers, now,
                   saves, lastChange, lastCleared>>

\* A timeout of the auto-save runs: saveGamesToFile(games) with the list the
\* timeout was armed with.
SaveTimeout ==
    \E t \in timers :
        /\ t.due <= now
        /\ timers' = timers \ {t}
        /\ fileHandle' = TRUE
        /\ fileContent' = [exists |-> TRUE, games |-> t.games]
        /\ saves' = [count |-> saves.count + 1, at |-> now, games |-> t.games]
        /\ UNCHANGED <<gamepadVars, throttledVars, keyboardVars, routerVars, fileVars, appVars, lastNav, appMounted, saveTimeoutRef, now,
                       lastChange, lastCleared>>

\* A tenth of a second passes.
Advance ==
    /\ now < MaxTime
    /\ \A t \in timers : t.due > now
    /\ now' = now + 1
    /\ UNCHANGED <<gamepadVars, throttledVars, keyboardVars, routerVars, fileVars, appVars, lastNav, appMounted, fileHandle, fileContent,
                   saveTimeoutRef, timers, saves, lastChange, lastCleared>>

\* App unmounts: the cleanup of the auto-save effect clears the timeout of
\* saveTimeoutRef.
UnmountApp ==
    /\ appMounted
    /\ appMounted' = FALSE
    /\ LET cleaned == AutoSaveCleanup(timers, saveTimeoutRef)
           dropped == {t \in timers : t \notin cleaned}
       IN  /\ timers' = cleaned
           /\ lastCleared' = IF dropped = {}
                             THEN lastCleared
                             ELSE LET t == CHOOSE t \in dropped : TRUE
                                  IN  [due |-> t.due, games |-> t.games]
    /\ lastChange' = -1
    /\ UNCHANGED <<gamepadVars, throttledVars, keyboardVars, routerVars, fileVars, appVars, lastNav, fileHandle, fileContent,
                   saveTimeoutRef, now, saves>>

InitSave ==
    /\ InitHook
    /\ InitKeyboard
    /\ InitNoDisk
    /\ inUse = [button |-> BUTTON_A, stick |-> <<0, -10>>]
    /\ games = << >>
    /\ inputValue = <<"A">>
    /\ fileSupported = TRUE
    /\ keyboardVisible = FALSE
    /\ focusedIndex = 0
    /\ nextId = 1
    /\ lastNav = NoNav
    /\ InitNoFile

NextSave ==
    \/ ClickAdd
    \/ ClickToggle
    \/ ClickDelete
    \/ LoadFile
    \/ SaveFile
    \/ SaveTimeout
    \/ Advance
    \/ UnmountApp

SpecSave == InitSave /\ [][NextSave]_vars

(***************************************************************************)
(* Specification of a timed scenario of the auto-save: with a file open    *)
(* and nothing pending, the list is changed once at each of the times 0,   *)
(* 100, 200 and 600 ms and at no other time.                               *)
(***************************************************************************)
ScriptTimes == {0, 1, 2, 6}

LastScripted == CHOOSE t \in ScriptTimes : \A other \in ScriptTimes : other <= t

\* A change of the script is to be made now.
AtScriptTime == now \in ScriptTimes /\ lastChange # now

InitDebounce ==
    /\ InitHook
    /\ InitKeyboard
    /\ InitNoDisk
    /\ inUse = [button |-> BUTTON_A, stick |-> <<0, -10>>]
    /\ games \in LoadedLists
    /\ inputValue = <<"A">>
    /\ fileSupported = TRUE
    /\ keyboardVisible = FALSE
    /\ focusedIndex = 0
    /\ nextId = 1
    /\ lastNav = NoNav
    /\ appMounted = TRUE
    /\ fileHandle = TRUE
    /\ fileContent = [exists |-> TRUE, games |-> games]
    /\ saveTimeoutRef = 1
    /\ timers = {}
    /\ now = 0
    /\ saves = NoSaves
    /\ lastChange = -1
    /\ lastCleared = NoCleared

ScriptedAdd == AtScriptTime /\ ClickAdd

ScriptedToggle == AtScriptTime /\ ClickToggle

ScriptedDelete == AtScriptTime /\ ClickDelete

ScriptedLoad == AtScriptTime /\ LoadFile

Wait == ~AtScriptTime /\ Advance

NextDebounce ==
    \/ ScriptedAdd
    \/ ScriptedToggle
    \/ ScriptedDelete
    \/ ScriptedLoad
    \/ Wait
    \/ SaveTimeout

SpecDebounce == InitDebounce /\ [][NextDebounce]_vars

(***************************************************************************)
(* OnScreenKeyboard (src/src/OnScreenKeyboard.tsx) with the props App      *)
(* gives it.  The poll effect requests a frame for handleGamepad and       *)
(* returns a cleanup that cancels that one request; handleGamepad requests *)
(* its next frame itself.  A chain that has run once is therefore out of   *)
(* the cleanup's reach, and the frames run the chains in the order they    *)
(* were started.  Each chain reads the cursor and the props of the render  *)
(* whose effect started it; the three refs are shared by all of them.      *)
(***************************************************************************)
\* The delete key and the confirm key are written "DEL" and "OK".
KEYBOARD_LAYOUT ==
    << <<"1", "2", "3", "4", "5", "6", "7", "8", "9", "0">>,
       <<"Q", "W", "E", "R", "T", "Y", "U", "I", "O", "P">>,
       <<"A", "S", "D", "F", "G", "H", "J", "K", "L", "DEL">>,
       <<"Z", "X", "C", "V", "B", "N", "M", "!", "?", "OK">>,
       <<"Space", "Close">> >>

\* KEYBOARD_LAYOUT[row].length
RowWidth(row) == Len(KEYBOARD_LAYOUT[row + 1])

\* KEYBOARD_LAYOUT[selectedRow]?.[selectedCol]
KeyAt(row, col) ==
    IF row + 1 \in DOMAIN KEYBOARD_LAYOUT /\ col + 1 \in DOMAIN KEYBOARD_LAYOUT[row + 1]
    THEN KEYBOARD_LAYOUT[row + 1][col + 1]
    ELSE "undefined"

\* The props of <OnScreenKeyboard> in App.
onInput(char, c, u) == [u EXCEPT !.inputValue = Append(@, char)]
onBackspace(c, u) == [u EXCEPT !.inputValue = SubSeq(@, 1, Len(@) - 1)]
onEnter(c, u) == [addGame(c, u) EXCEPT !.keyboardVisible = FALSE]
onClose(c, u) == [u EXCEPT !.keyboardVisible = FALSE]

\* handleKeyPress(key): the prop it calls, with its argument.
handleKeyPress(key) ==
    IF key = "DEL" THEN <<"onBackspace">>
    ELSE IF key = "OK" THEN <<"onEnter">>
    ELSE IF key = "Space" THEN <<"onInput", " ">>
    ELSE IF key = "Close" THEN <<"onClose">>
    ELSE <<"onInput", key>>

\* The call of a prop of the render c, made while u is pending.
CallProp(call, c, u) ==
    CASE call[1] = "onInput" -> onInput(call[2], c, u)
      [] call[1] = "onBackspace" -> onBackspace(c, u)
      [] call[1] = "onEnter" -> onEnter(c, u)
      [] call[1] = "onClose" -> onClose(c, u)

\* What a chain's handleGamepad closed over.
Closure(row, col, app) == [row |-> row, col |-> col, app |-> app]

\* dpadUp, dpadDown, dpadLeft, dpadRight of handleGamepad.
KeyboardDpad(pad) ==
    [up |-> At(pad.buttons, 12) \/ pad.axes[2] < -STICK_THRESHOLD,
     down |-> At(pad.buttons, 13) \/ pad.axes[2] > STICK_THRESHOLD,
     left |-> At(pad.buttons, 14) \/ pad.axes[1] < -STICK_THRESHOLD,
     right |-> At(pad.buttons, 15) \/ pad.axes[1] > STICK_THRESHOLD]

RightWraps(maxCol, prev) == (prev + 1) % (maxCol + 1)

\* The updater of the Right edge: Math.min(maxCol, prev + 1).
MoveRight(maxCol, prev) == Min(maxCol, prev + 1)

ARepeats(aPressed, last) == aPressed

\* aPressed && !lastARef.current
AEdge(aPressed, last) == aPressed /\ ~last

\* One run of handleGamepad of the chain ch on the snapshot pad.  st holds
\* what the frame has done so far: the pending row, col and App state, the
\* refs, and the calls made.
HandleGamepad(ch, st, pad) ==
    IF ~pad.connected
    THEN st
    ELSE
    LET d == KeyboardDpad(pad)
        last == st.dpad
        row1 == IF d.up /\ ~last.up THEN Max(0, st.row - 1) ELSE st.row
        row2 == IF d.down /\ ~last.down
                THEN Min(Len(KEYBOARD_LAYOUT) - 1, row1 + 1)
                ELSE row1
        col1 == IF d.left /\ ~last.left THEN Max(0, st.col - 1) ELSE st.col
        col2 == IF d.right /\ ~last.right
                THEN MoveRight(RowWidth(ch.row) - 1, col1)
                ELSE col1
        aPressed == At(pad.buttons, 0)
        key == KeyAt(ch.row, ch.col)
        activates == AEdge(aPressed, st.a) /\ key # "undefined"
        u1 == IF activates THEN CallProp(handleKeyPress(key), ch.app, st.u) ELSE st.u
        out1 == IF activates
                THEN Append(st.out, [by |-> "A", key |-> key, call |-> handleKeyPress(key)])
                ELSE st.out
        bPressed == At(pad.buttons, 1)
        closes == bPressed /\ ~st.b
        u2 == IF closes THEN onClose(ch.app, u1) ELSE u1
        out2 == IF closes
                THEN Append(out1, [by |-> "B", key |-> "undefined", call |-> <<"onClose">>])
                ELSE out1
    IN  [row |-> row2, col |-> col2, u |-> u2, dpad |-> d, a |-> aPressed,
         b |-> bPressed, out |-> out2]

\* A frame: the chains run one after the other.
RECURSIVE KeyboardFrame(_, _, _)
KeyboardFrame(chains, st, pad) ==
    IF chains = << >>
    THEN st
    ELSE KeyboardFrame(Tail(chains), HandleGamepad(Head(chains), st, pad), pad)

NoReclamp(row, col) == col

\* The second effect: if (selectedCol > maxCol) setSelectedCol(maxCol).
Reclamp(row, col) == IF col > RowWidth(row) - 1 THEN RowWidth(row) - 1 ELSE col

\* The chains the model follows: the MaxChains oldest.  A chain started later
\* runs after them in every frame.
Tracked(chains) == SubSeq(chains, 1, Min(Len(chains), MaxChains))

\* React commits the pending state (row, col, u) and runs the effects.  If
\* the cursor or a prop changed, the poll effect runs again: its cleanup
\* cancels the request of the run before (unrun, if it has not run yet), and with
\* the overlay visible it requests a frame for a new chain.  The re-clamp
\* effect may set the column once more, which renders and runs the poll
\* effect again, before any frame.
KeyboardCommit(row, col, u, unrun) ==
    LET rerender == row # selectedRow \/ col # selectedCol \/ u # Render
    IN  /\ selectedRow' = row
        /\ selectedCol' = Reclamp(row, col)
        /\ Commit(u)
        /\ AutoSave(u.games, u.games # games, fileHandle)
        /\ kbPending' = IF rerender
                        THEN IF u.keyboardVisible
                             THEN <<Closure(row, Reclamp(row, col), u)>>
                             ELSE << >>
                        ELSE unrun

\* The hold of A: it starts at a frame that reads A down after a frame that
\* read it up, the overlay being visible, and lasts while the frames read A
\* down with the overlay visible.
ObserveRun(pad, out) ==
    LET aNow == At(pad.buttons, 0)
        calls == Len(SelectSeq(out, LAMBDA e : e.by = "A"))
    IN  IF aNow /\ keyboardVisible
        THEN IF ~kbRun.prevA
             THEN [prevA |-> TRUE, len |-> 1, fires |-> calls]
             ELSE IF kbRun.len > 0
                  THEN [prevA |-> TRUE, len |-> Min(kbRun.len + 1, MaxHold),
                        fires |-> kbRun.fires + calls]
                  ELSE [prevA |-> TRUE, len |-> 0, fires |-> 0]
        ELSE [prevA |-> aNow, len |-> 0, fires |-> 0]

\* What the last frame started from: the cursor, the overlay, and the directions that a
\* polling chain found risen ({} if no chain was live).
ObserveMove(pad) ==
    LET d == KeyboardDpad(pad)
    IN  [row |-> selectedRow, col |-> selectedCol, open |-> keyboardVisible,
         edges |-> IF kbChains \o kbPending = << >>
                   THEN {}
                   ELSE {dir \in {"up", "down", "left", "right"} :
                            d[dir] /\ ~lastDpadRef[dir]}]

\* What the user works at the overlay in one run: one of A, B and the four
\* D-pad buttons, and the stick pushed right or down.
KeyboardUses == [button : {0, 1, 12, 13, 14, 15}, stick : {<<10, 0>>, <<0, 10>>}]

\* A display frame: every live chain polls the pad.
PollKeyboard(pad) ==
    LET st0 == [row |-> selectedRow, col |-> selectedCol, u |-> Render,
                dpad |-> lastDpadRef, a |-> lastARef, b |-> lastBRef, out |-> << >>]
        st == KeyboardFrame(kbChains \o kbPending, st0, pad)
    IN  /\ appMounted
        /\ Len(inputValue) <= MaxTyped
        /\ lastDpadRef' = st.dpad
        /\ lastARef' = st.a
        /\ lastBRef' = st.b
        /\ emitted' = st.out
        /\ kbRun' = ObserveRun(pad, st.out)
        /\ kbMove' = ObserveMove(pad)
        /\ kbChains' = Tracked(kbChains \o kbPending)
        /\ KeyboardCommit(st.row, st.col, st.u, << >>)
        /\ UNCHANGED <<gamepadVars, throttledVars, lastNav, appMounted, fileHandle,
                       fileContent, now, saves, routerVars, fileVars>>

KeyboardPoll == \E pad \in UsedSnapshots(inUse) : PollKeyboard(pad)

\* App shows the overlay (its onX, or the text input taking the focus).
OpenKeyboard ==
    /\ appMounted
    /\ ~keyboardVisible
    /\ emitted' = << >>
    /\ KeyboardCommit(selectedRow, selectedCol, [Render EXCEPT !.keyboardVisible = TRUE],
                      kbPending)
    /\ UNCHANGED <<gamepadVars, throttledVars, lastNav, appMounted, fileHandle,
                   fileContent, now, saves, lastDpadRef, lastARef, lastBRef, kbChains,
                   kbRun, kbMove, routerVars, fileVars>>

\* The keys the user clicks with the mouse.
ClickedKeys == {"DEL", "Close"}

\* onClick={() => handleKeyPress(key)} of a key of the overlay.
ClickKey ==
    \E key \in ClickedKeys :
        /\ appMounted
        /\ keyboardVisible
        /\ emitted' = <<[by |-> "click", key |-> key, call |-> handleKeyPress(key)]>>
        /\ KeyboardCommit(selectedRow, selectedCol,
                          CallProp(handleKeyPress(key), Render, Render), kbPending)
        /\ UNCHANGED <<gamepadVars, throttledVars, lastNav, appMounted, fileHandle,
                       fileContent, now, saves, lastDpadRef, lastARef, lastBRef,
                       kbChains, kbRun, kbMove, routerVars, fileVars>>

InitKeyboardApp ==
    /\ InitHook
    /\ inUse \in KeyboardUses
    /\ InitAppIdle

NextKeyboard == KeyboardPoll \/ OpenKeyboard \/ ClickKey

SpecKeyboard == InitKeyboardApp /\ [][NextKeyboard]_vars

(***************************************************************************)
(* Claims about useGamepad.                                                *)
(***************************************************************************)
\* The last step was a tick that processed a pad.
PadTicks == {"first", "changed", "notified", "continued"}

\* C1 (edge idempotence): an input that was read inactive and has since been read
\* active on n >= 1 consecutive ticks of the same slot, with no notification in
\* between, has had its callback invoked exactly once, on the first of those
\* ticks and on none of the later ones; the tick that reads an input inactive
\* (the release tick among them) does not invoke its callback.
C1_EdgeIdempotence ==
    \A cb \in configRef :
        /\ holdRun[cb] >= 1 => firesInRun[cb] = 1
        /\ (tickKind = "continued" /\ holdRun[cb] >= 1)
              => Count(cb, fired) = (IF holdRun[cb] = 1 THEN 1 ELSE 0)
        /\ (tickKind \in PadTicks /\ holdRun[cb] = 0) => Count(cb, fired) = 0

\* A button and the stick have both been held over MaxHold ticks or more, and the
\* last of these ticks invoked nothing.
C1_Witness ==
    /\ tickKind = "continued"
    /\ fired = << >>
    /\ \E b \in ButtonCallbacks, d \in DirectionCallbacks :
          /\ holdRun[b] = MaxHold /\ firesInRun[b] = 1
          /\ holdRun[d] = MaxHold /\ firesInRun[d] = 1

\* C2 (no edge when first seen): the first tick that processes a pad after none
\* was polled (at the start, or after a tick that found no pad) invokes no
\* button callback, whatever is pressed in it.
C2_NoFireWhenFirstSeen ==
    tickKind = "first" => \A cb \in ButtonCallbacks : Count(cb, fired) = 0

\* C3 (multi-pad independence): a tick in which button 0 goes from up to down on
\* two pads invokes onA twice, and one in which it does so on any pad (whatever
\* the other pad holds) invokes onA.
C3_EachPadFires ==
    tickKind \in PadTicks =>
        /\ risers = 2 => Count("onA", fired) = 2
        /\ risers >= 1 => Count("onA", fired) >= 1

\* C9 (teardown guard): once the teardown has run the stopped flag is set, and a
\* step taken after it invokes no callback, requests no frame and leaves the
\* remembered levels alone.
C9_NoDispatchAfterTeardown ==
    [][/\ tornDown' => ~isMounted'
       /\ tornDown => /\ fired' = << >>
                      /\ rafQueue' \subseteq rafQueue
                      /\ UNCHANGED <<lastButtonState, lastAxisState, animationFrameId>>]_vars

\* A frame that was not cancelled in time has run after the teardown, with an
\* input active in its snapshot.
C9_Witness == tornDown /\ tickKind = "stopped, input active"

(***************************************************************************)
(* Claims about the focus cursor of App.                                   *)
(***************************************************************************)
\* C4 (focus clamp under Up/Down): a tick that delivers only Up and Down
\* commands, while the overlay is closed and the cursor is in range, leaves the
\* cursor in range: Up moves it to max(0, cursor - 1) and Down to
\* min(targetCount - 1, cursor + 1), so Up at 0 and Down at the last target
\* leave it where it is.
C4_FocusClamp ==
    [][LET targetCount == totalElements(fileSupported, games)
           Up(cursor) == Max(0, cursor - 1)
           Down(cursor) == Min(targetCount - 1, cursor + 1)
           InRange == ~keyboardVisible /\ focusedIndex \in 0 .. (targetCount - 1)
       IN  /\ (InRange /\ GamepadTick(<<"onUp">>)) => focusedIndex' = Up(focusedIndex)
           /\ (InRange /\ GamepadTick(<<"onDown">>)) => focusedIndex' = Down(focusedIndex)
           /\ (InRange /\ GamepadTick(<<"onUp", "onDown">>))
                 => focusedIndex' = Down(Up(focusedIndex))
           /\ (InRange /\ \E cbs \in {<<"onUp">>, <<"onDown">>, <<"onUp", "onDown">>} :
                             GamepadTick(cbs))
                 => focusedIndex' \in 0 .. (targetCount - 1)]_vars

\* Down was delivered with the cursor on the last target of a list that holds a
\* game, and the cursor stayed there; so was Up with the cursor on the first.
C4_Witness ==
    \/ /\ games # << >>
       /\ lastNav = "onDown"
       /\ focusedIndex = totalElements(fileSupported, games) - 1
    \/ /\ games # << >>
       /\ lastNav = "onUp"
       /\ focusedIndex = 0

\* C5 (re-clamp on shrink): the cursor is within the targets in every reachable
\* state, 0 <= cursor < targetCount, whatever has been removed from the list.
C5_CursorInRange ==
    focusedIndex \in 0 .. (totalElements(fileSupported, games) - 1)

(***************************************************************************)
(* Claims about the auto-save of App.                                      *)
(***************************************************************************)
\* C6 (debounce coalescing), as first stated: with changes at 0, 100, 200 and
\* 600 ms and a delay of 500 ms, exactly one save is made, at 700 ms, with the
\* list as of 600 ms.
C6_SaveAt700 ==
    now > 7 => (saves.count = 1 /\ saves.at = 7 /\ saves.games = games)

\* C6, amended: with changes at 0, 100, 200 and 600 ms and a delay of 500 ms,
\* exactly one save is made, 500 ms after the last change (at 1100 ms), with the
\* list as of 600 ms; no save is made before.
C6_SaveAfterLastChange ==
    /\ now < LastScripted + DEBOUNCE => saves.count = 0
    /\ saves.count <= 1
    /\ now > LastScripted + DEBOUNCE =>
          (saves.count = 1 /\ saves.at = LastScripted + DEBOUNCE /\ saves.games = games)

\* The four changes were made, the timeout armed at 200 ms was cleared at 600 ms,
\* and the one save was made at 1100 ms.
C6_Witness ==
    /\ now > LastScripted + DEBOUNCE
    /\ saves.count = 1
    /\ saves.at = LastScripted + DEBOUNCE
    /\ lastCleared.due = 2 + DEBOUNCE
    /\ lastCleared.games # saves.games

\* C7 (the final state is not lost): while App is mounted and the list last
\* changed with a file open, either the timeout of that change is pending, due
\* 500 ms after it and carrying the list as it is, or the save was made at that
\* time with the list as it is; so once 500 ms have passed without a change the
\* list as it stands has been saved.
C7_FinalStateSaved ==
    (appMounted /\ lastChange >= 0) =>
        \/ \E t \in timers :
              t.games = games /\ t.due = lastChange + DEBOUNCE /\ now <= t.due
        \/ /\ saves.count >= 1
           /\ saves.games = games
           /\ saves.at = lastChange + DEBOUNCE
           /\ fileContent = [exists |-> TRUE, games |-> games]

\* More than 500 ms after the last change, of a list that holds a game, the save
\* has been made with it.
C7_Witness ==
    /\ appMounted
    /\ lastChange >= 0
    /\ now > lastChange + DEBOUNCE
    /\ games # << >>
    /\ timers = {}
    /\ saves.count >= 1
    /\ saves.games = games

\* C8 (single pending save timer): at most one timeout of the auto-save is
\* pending, it is the one of saveTimeoutRef and carries the list as it is (a
\* change clears the timeout of the version it supersedes), and every save that
\* is made is made with the list as it is.
C8_SinglePendingSave ==
    [][/\ Cardinality(timers') <= 1
       /\ \A t \in timers' : t.id = saveTimeoutRef' /\ t.games = games'
       /\ saves'.count > saves.count => saves'.games = games]_vars

\* A pending timeout was cleared by a change, its time passed without a save,
\* and the one save made since carries the newer list.
C8_Witness ==
    /\ lastCleared.due >= 0
    /\ timers = {}
    /\ saves.count = 1
    /\ saves.at > lastCleared.due
    /\ saves.games = games
    /\ saves.games # lastCleared.games

(***************************************************************************)
(* Claims about the throttled useGamepad.                                  *)
(***************************************************************************)
\* C10 (teardown of the throttled poll loop): after the teardown no poll is
\* scheduled any more, neither a frame nor a 500 ms timeout; a timeout that
\* was pending at the teardown requests no frame when it runs.
C10_NoPollAfterTeardown ==
    [][tornDown => (rafQueue' \subseteq rafQueue /\ pollTimers' <= pollTimers)]_vars

(***************************************************************************)
(* Claims about the auto-save at unmount and without a file.               *)
(***************************************************************************)
\* C11: once App is unmounted no save call is made any more; in particular
\* the timeout that was pending when App unmounted never calls save.
C11_NoSaveAfterUnmount ==
    [][~appMounted' => (saves' = saves /\ fileContent' = fileContent)]_vars

\* App unmounted with a timeout pending (no save had been made, so the last
\* timeout armed was the one the unmount cleared), and its time has passed.
C11_Witness ==
    /\ ~appMounted
    /\ saves.count = 0
    /\ lastCleared.due >= 0
    /\ now > lastCleared.due

\* C12: while no file is open no timeout of the auto-save is pending and no
\* save call has been made by it, whatever changes the list went through.
C12_NoSaveWithoutFile ==
    ~fileHandle => (timers = {} /\ saveTimeoutRef = 0 /\ saves.count = 0)

\* The list was changed with no file open and the debounce time has passed.
C12_Witness ==
    /\ ~fileHandle
    /\ games # << >>
    /\ now > DEBOUNCE

(***************************************************************************)
(* Claims about the on-screen keyboard.                                    *)
(***************************************************************************)
\* C13: the keyboard cursor is on a key of the layout after every step, and
\* when a frame changed the row, the column is the column the frame's Left
\* or Right gave (or the old one) clamped to the new row's width; from
\* (3, 9), a frame that moves to the last row leaves the cursor at (4, 1).
C13_RowChangeReclamp ==
    /\ KeyAt(selectedRow, selectedCol) # "undefined"
    /\ selectedRow # kbMove.row =>
           selectedCol \in {Min(c, RowWidth(selectedRow) - 1) :
                               c \in {Max(0, kbMove.col - 1), kbMove.col, kbMove.col + 1}}
    /\ (kbMove.row = 3 /\ kbMove.col = 9 /\ selectedRow = 4) => selectedCol = 1

\* Down alone was pressed at (3, 9) and the cursor is at (4, 1).
C13_Witness ==
    /\ kbMove.row = 3
    /\ kbMove.col = 9
    /\ kbMove.edges = {"down"}
    /\ selectedRow = 4
    /\ selectedCol = 1

C15_NoKeyRepeat == kbRun.len >= 1 => kbRun.fires = 1

\* A has been held for MaxHold frames, its activation typed a character,
\* and the last of these frames moved the cursor as well.
C15_Witness ==
    /\ kbRun.len = MaxHold
    /\ kbRun.fires = 1
    /\ inputValue = <<"1">>
    /\ kbMove.edges = {"right"}
    /\ selectedCol # kbMove.col

\* C16: in a frame that began with the overlay open, an activation by A
\* calls what handleKeyPress maps the key at the cursor to (the character
\* for a character key, backspace for the delete key, commit for the
\* confirm key, a space for Space, close for Close), and a B press calls
\* close.
C16_KeyActivation ==
    kbMove.open =>
        \A i \in DOMAIN emitted :
            /\ emitted[i].by = "A" =>
                   emitted[i].call = handleKeyPress(KeyAt(kbMove.row, kbMove.col))
            /\ emitted[i].by = "B" => emitted[i].call = <<"onClose">>

(***************************************************************************)
(* Claims about the dispatch of useGamepad.                                *)
(***************************************************************************)
\* The callbacks in the order of the claim: the buttons by ascending index
\* (A 0, B 1, X 2, Y 3, Select 8, Start 9), then Up, Down, Left, Right.
RouterOrder ==
    <<"onA", "onB", "onX", "onY", "onSelect", "onStart",
      "onUp", "onDown", "onLeft", "onRight">>

\* The input of cb is active in the snapshot the last tick read and was not
\* in the one the tick before read.
Rose(cb) == InputActive(cb, polled.now) /\ ~InputActive(cb, polled.before)

\* C17: a tick that follows a tick on the same pad invokes exactly the
\* callbacks whose inputs rose, each once, the buttons in ascending index
\* order and then Up, Down, Left, Right; a button outside the table (a
\* D-pad button taken as a plain button included) adds no invocation.
C17_DispatchOrder ==
    tickKind = "continued" => fired = SelectSeq(RouterOrder, Rose)

\* All buttons went down together after a tick that read them all up, and
\* the ten callbacks were invoked.
C17_Witness ==
    /\ tickKind = "continued"
    /\ polled.before = PadWith({}, <<0, 0>>)
    /\ polled.now = PadWith(Pressable, <<0, 0>>)
    /\ Len(fired) = 10

\* The claim's reading of a direction: its D-pad button is pressed, or its
\* axis is strictly beyond the threshold on its side.
DirectionButton == [up |-> 12, down |-> 13, left |-> 14, right |-> 15]
DirectionCallback == [up |-> "onUp", down |-> "onDown", left |-> "onLeft", right |-> "onRight"]
AxisBeyond(dir, pad) ==
    CASE dir = "up" -> pad.axes[2] < -STICK_THRESHOLD
      [] dir = "down" -> pad.axes[2] > STICK_THRESHOLD
      [] dir = "left" -> pad.axes[1] < -STICK_THRESHOLD
      [] dir = "right" -> pad.axes[1] > STICK_THRESHOLD

\* C18: after a tick on a pad each direction's level is: its D-pad button is
\* pressed or its axis is strictly beyond 0.5 on its side (at exactly 0.5
\* it is not); and a tick that reads a direction's D-pad button down, after
\* a tick that read it down, does not invoke the direction's callback,
\* wherever the stick is.
C18_DirectionSynthesis ==
    tickKind \in {"first", "continued"} =>
        \A dir \in {"up", "down", "left", "right"} :
            /\ lastAxisState[dir] =
                   (At(polled.now.buttons, DirectionButton[dir]) \/ AxisBeyond(dir, polled.now))
            /\ (/\ tickKind = "continued"
                /\ At(polled.before.buttons, DirectionButton[dir])
                /\ At(polled.now.buttons, DirectionButton[dir]))
               => Count(DirectionCallback[dir], fired) = 0

\* D-pad up was held with the stick at rest, then the stick went up beyond
\* the threshold with the button still held: nothing was invoked.
C18_Witness ==
    /\ tickKind = "continued"
    /\ polled.before = PadWith({12}, <<0, 0>>)
    /\ polled.now = PadWith({12}, <<0, -6>>)
    /\ fired = << >>

(***************************************************************************)
(* Claims about A, X and B in App.                                         *)
(***************************************************************************)
\* C19: with the overlay closed, a tick that delivers A alone acts on the
\* target at the cursor, the targets being: open and save (if the file API
\* is supported), the text input, the add button, then for each item of the
\* list as displayed (the incomplete items in storage order, then the
\* completed ones in storage order) its toggle and its delete.  The text
\* input opens the overlay, the add button adds the typed title, slot
\* base + 2j toggles and slot base + 2j + 1 deletes the j-th displayed item;
\* nothing else changes (the file pickers are dismissed).
C19_ActivationResolution ==
    [][(~keyboardVisible /\ GamepadTick(<<"onA">>)) =>
        LET first == IF fileSupported THEN 2 ELSE 0
            base == first + 2
            shown == SelectSeq(games, LAMBDA g : ~g.completed)
                     \o SelectSeq(games, LAMBDA g : g.completed)
            slot == focusedIndex - base
            item == shown[(slot \div 2) + 1]
        IN  /\ focusedIndex' = focusedIndex
            /\ fileSupported' = fileSupported
            /\ IF focusedIndex < first
               THEN UNCHANGED <<games, inputValue, keyboardVisible>>
               ELSE IF focusedIndex = first
               THEN keyboardVisible' /\ UNCHANGED <<games, inputValue>>
               ELSE IF focusedIndex = first + 1
               THEN /\ keyboardVisible' = keyboardVisible
                    /\ IF Trim(inputValue) = << >>
                       THEN UNCHANGED <<games, inputValue>>
                       ELSE /\ Len(games') = Len(games) + 1
                            /\ SubSeq(games', 1, Len(games)) = games
                            /\ games'[Len(games')].title = inputValue
                            /\ ~games'[Len(games')].completed
                            /\ inputValue' = << >>
               ELSE IF slot >= 0 /\ slot < 2 * Len(shown)
               THEN /\ UNCHANGED <<inputValue, keyboardVisible>>
                    /\ IF slot % 2 = 0
                       THEN games' = [i \in DOMAIN games |->
                                        IF games[i].id = item.id
                                        THEN [games[i] EXCEPT !.completed = ~@]
                                        ELSE games[i]]
                       ELSE games' = SelectSeq(games, LAMBDA g : g.id # item.id)
               ELSE UNCHANGED <<games, inputValue, keyboardVisible>>]_vars

\* A alone was delivered with the overlay closed and the cursor on a slot of
\* an item whose place in the displayed list is not its place in the stored one.
C19_Witness == lastNav = "onA, displaced item"

\* C20: a tick that delivers X alone opens the overlay if it is closed and
\* the cursor is on the text input, and otherwise changes nothing of App's
\* state; a tick that delivers B alone closes the overlay if it is open and
\* otherwise changes nothing.
C20_ModalXAndB ==
    [][/\ GamepadTick(<<"onX">>) =>
            IF ~keyboardVisible /\ focusedIndex = (IF fileSupported THEN 2 ELSE 0)
            THEN /\ keyboardVisible'
                 /\ UNCHANGED <<games, inputValue, fileSupported, focusedIndex, nextId>>
            ELSE UNCHANGED appVars
       /\ GamepadTick(<<"onB">>) =>
            IF keyboardVisible
            THEN /\ ~keyboardVisible'
                 /\ UNCHANGED <<games, inputValue, fileSupported, focusedIndex, nextId>>
            ELSE UNCHANGED appVars]_vars

\* X alone was delivered with the overlay closed and the overlay is open.
C20_Witness == lastNav = "onX" /\ keyboardVisible

(***************************************************************************)
(* Claims about the poll loop without a pad.                               *)
(***************************************************************************)
\* C21: after a tick that found no pad no frame is requested: the next poll
\* waits for the coarse interval and not for the next display refresh.
C21_ThrottledWhenAbsent == tickKind = "absent" => rafQueue = {}

(***************************************************************************)
(* Specification of App with fileStorage: the start-up reads the file of   *)
(* the stored handle, the user opens files, saves, dismisses pickers and   *)
(* changes the list.  The clock is not followed here: a pending timeout of *)
(* the auto-save runs at some later moment.                                *)
(***************************************************************************)
\* What the elements of a file's array can be: a game, another game with the
\* same id, and an object whose id is a number.
FileItems ==
    {GameJSON([id |-> 0, title |-> <<"A">>, completed |-> FALSE]),
     GameJSON([id |-> 0, title |-> <<"B">>, completed |-> TRUE]),
     [type |-> "object", id |-> Member("number", 0), title |-> Member("string", <<"A">>),
      completed |-> Member("boolean", FALSE)]}

Documents ==
    {Blank, NotJSON, NotAList} \cup
    {[text |-> "JSON", top |-> "array", items |-> a] :
        a \in UNION {[1 .. n -> FileItems] : n \in 0 .. MaxItems}}

FileState == [fileHandle |-> openedFile, db |-> storedHandle]

\* The module state after a call that returned r.
KeepHandle(r) ==
    /\ openedFile' = r.fileHandle
    /\ fileHandle' = (r.fileHandle # NoFile)
    /\ storedHandle' = r.db

\* if (loadedGames !== null) setGames(loadedGames): the list is a new array,
\* so the auto-save effect runs again, with the handle the call left.
SetLoaded(r) ==
    IF r.result.null
    THEN UNCHANGED <<games, saveTimeoutRef, timers, lastChange, lastCleared>>
    ELSE /\ games' = r.result.games
         /\ AutoSave(r.result.games, TRUE, r.fileHandle # NoFile)

LoadOutcome(r) ==
    IF ~r.result.null THEN "loaded" ELSE IF r.errors > 0 THEN "failed" ELSE "null"

\* The effect of the mount: setFileSupported(supported), then
\* loadLastOpenedFile() and, if it returned a list, setGames.
Startup ==
    \E granted \in BOOLEAN :
        LET r == loadLastOpenedFile(granted, files, FileState)
        IN  /\ appMounted
            /\ ~session.started
            /\ fileSupported' = TRUE
            /\ KeepHandle(r)
            /\ SetLoaded(r)
            /\ fileOp' = [op |-> "startup", pick |-> storedHandle,
                          outcome |-> IF storedHandle # NoFile /\ ~granted
                                      THEN "declined" ELSE LoadOutcome(r),
                          errors |-> r.errors, warnings |-> r.warnings]
            /\ session' = [session EXCEPT !.started = TRUE,
                                          !.declined = storedHandle # NoFile /\ ~granted]
            /\ lastNav' = NoNav
            /\ UNCHANGED <<gamepadVars, throttledVars, keyboardVars, routerVars, inputValue,
                           keyboardVisible, focusedIndex, nextId, appMounted, fileContent,
                           now, saves, files>>

\* The Open File button: handleLoadFile.
OpenFile ==
    \E pick \in FileNames \cup {Cancel} :
        LET r == loadGamesFromFile(pick, files, FileState)
        IN  /\ appMounted
            /\ fileSupported
            /\ KeepHandle(r)
            /\ SetLoaded(r)
            /\ fileOp' = [op |-> "open", pick |-> pick,
                          outcome |-> IF pick = Cancel THEN "cancelled" ELSE LoadOutcome(r),
                          errors |-> r.errors, warnings |-> r.warnings]
            /\ session' = [session EXCEPT !.picked = @ \/ pick # Cancel]
            /\ lastNav' = NoNav
            /\ UNCHANGED <<gamepadVars, throttledVars, keyboardVars, routerVars, inputValue,
                           fileSupported, keyboardVisible, focusedIndex, nextId, appMounted,
                           fileContent, now, saves, files>>

\* The Save As button: handleSaveFile, with the list of the current render.
SaveAs ==
    \E pick \in FileNames \cup {Cancel} :
        LET r == saveGamesToFile(games, pick, files, FileState)
        IN  /\ appMounted
            /\ fileSupported
            /\ openedFile = NoFile \/ pick = Cancel
            /\ KeepHandle(r)
            /\ files' = r.disk
            /\ fileOp' = [op |-> "save as", pick |-> r.fileHandle,
                          outcome |-> IF r.success THEN "written" ELSE "cancelled",
                          errors |-> r.errors, warnings |-> 0]
            /\ session' = [session EXCEPT !.picked = @ \/ (openedFile = NoFile /\ r.success)]
            /\ UNCHANGED <<gamepadVars, throttledVars, keyboardVars, routerVars, appVars,
                           lastNav, appMounted, fileContent, saveTimeoutRef, timers, now,
                           saves, lastChange, lastCleared>>

\* A timeout of the auto-save runs: saveGamesToFile(games) with the list the
\* timeout was armed with.  A timeout is armed only with a handle held, so
\* nobody is asked for a file.
FileTimeout ==
    \E t \in timers :
        LET r == saveGamesToFile(t.games, Cancel, files, FileState)
        IN  /\ timers' = timers \ {t}
            /\ KeepHandle(r)
            /\ files' = r.disk
            /\ fileOp' = [op |-> "auto-save", pick |-> r.fileHandle,
                          outcome |-> IF r.success THEN "written" ELSE "cancelled",
                          errors |-> r.errors, warnings |-> 0]
            /\ UNCHANGED <<gamepadVars, throttledVars, keyboardVars, routerVars, appVars,
                           lastNav, appMounted, fileContent, saveTimeoutRef, now, saves,
                           lastChange, lastCleared, session>>

InitFile ==
    /\ InitHook
    /\ InitKeyboard
    /\ inUse = [button |-> BUTTON_A, stick |-> <<0, -10>>]
    /\ games = << >>
    /\ inputValue = <<"A">>
    /\ fileSupported = FALSE
    /\ keyboardVisible = FALSE
    /\ focusedIndex = 0
    /\ nextId = 1
    /\ lastNav = NoNav
    /\ InitNoFile
    /\ \E doc \in Documents : files = [f \in FileNames |-> IF f = "games.json" THEN doc ELSE Blank]
    /\ openedFile = NoFile
    /\ storedHandle \in {NoFile, "games.json"}
    /\ fileOp = NoOp
    /\ session = NoSession

NextFile ==
    \/ Startup
    \/ OpenFile
    \/ SaveAs
    \/ FileTimeout
    \/ ClickAdd
    \/ ClickToggle
    \/ ClickDelete

SpecFile == InitFile /\ [][NextFile]_vars

(***************************************************************************)
(* Claims about fileStorage and the file handlers of App.                  *)
(***************************************************************************)
\* What reading the file of the handle returns after the step.
ReadBack == ReadGames(files'[openedFile'])

\* C22: a save of a list of games, made by Save As with the list of the
\* render or by the auto-save with the list its timeout holds, leaves a file
\* whose reading succeeds without a warning and returns exactly that list:
\* the same games, fields and order, the empty list included.
C22_RoundTrip ==
    [][/\ (SaveAs /\ fileOp'.outcome = "written") =>
              ReadBack = [threw |-> FALSE, games |-> games, warnings |-> 0]
       /\ FileTimeout =>
              \E t \in timers \ timers' :
                  ReadBack = [threw |-> FALSE, games |-> t.games, warnings |-> 0]]_vars

\* A save has just written a list that holds a completed game and one that
\* is not, and the file of the handle holds what was written.
C22_Witness ==
    /\ fileOp.op \in {"save as", "auto-save"}
    /\ fileOp.outcome = "written"
    /\ Len(games) >= 2
    /\ files[openedFile] = stringify(games)
    /\ \E i, j \in DOMAIN games : games[i].completed /\ ~games[j].completed

\* The elements of a file's array that have a text id, a text title and a
\* boolean completed, in their order, as games.
WellFormed(item) ==
    /\ item.type = "object"
    /\ item.id.type = "string"
    /\ item.title.type = "string"
    /\ item.completed.type = "boolean"

WellFormedGames(doc) ==
    LET kept == SelectSeq(doc.items, WellFormed)
    IN  [i \in DOMAIN kept |->
            [id |-> kept[i].id.value, title |-> kept[i].title.value,
             completed |-> kept[i].completed.value]]

\* C23: when the file read by Open File or by the start-up holds a list, the
\* load succeeds and the list of App becomes exactly the well-formed elements
\* of the file, in their original order, also when some elements were dropped.
C23_MalformedFiltered ==
    [][\A f \in FileNames :
          ((OpenFile \/ Startup) /\ fileOp'.op \in {"open", "startup"}
             /\ fileOp'.pick = f /\ fileOp'.outcome # "declined"
             /\ files[f].text = "JSON" /\ files[f].top = "array")
          => (fileOp'.outcome = "loaded" /\ fileOp'.errors = 0
              /\ games' = WellFormedGames(files[f]))]_vars

\* A load that dropped the first element of two and kept the other.
C23_Witness ==
    /\ fileOp.op \in {"open", "startup"}
    /\ fileOp.outcome = "loaded"
    /\ fileOp.warnings = 1
    /\ Len(files[fileOp.pick].items) = 2
    /\ ~WellFormed(files[fileOp.pick].items[1])
    /\ games = WellFormedGames(files[fileOp.pick])
    /\ Len(games) = 1

\* C24: an Open File or Save As whose picker the user dismisses changes
\* neither the list nor the file target (the handle, the stored handle, the
\* files), schedules and cancels no save, and logs no error.
C24_CancelledDialog ==
    [][((OpenFile \/ SaveAs) /\ fileOp'.outcome = "cancelled") =>
          /\ games' = games
          /\ openedFile' = openedFile
          /\ fileHandle' = fileHandle
          /\ storedHandle' = storedHandle
          /\ files' = files
          /\ timers' = timers
          /\ fileOp'.errors = 0]_vars

\* The open picker was dismissed with a file open, games in the list and a
\* save pending.
C24_Witness ==
    /\ fileOp.op = "open"
    /\ fileOp.outcome = "cancelled"
    /\ openedFile # NoFile
    /\ games # << >>
    /\ timers # {}

\* C25: once the start-up found the permission for the stored file not
\* granted, and as long as no picker has returned a file, no file is open,
\* whatever is done to the list: no handle is held, no save is scheduled and
\* the last call into fileStorage is not a save of the auto-save.
C25_DeclinedPermission ==
    (session.declined /\ ~session.picked) =>
        /\ ~fileHandle
        /\ openedFile = NoFile
        /\ timers = {}
        /\ saveTimeoutRef = 0
        /\ fileOp.op # "auto-save"

\* After the declined permission a game was added and completed, and nothing
\* was picked.
C25_Witness ==
    /\ session.declined
    /\ ~session.picked
    /\ Len(games) = 1
    /\ games[1].completed

\* C26: the ids of the games of the list are pairwise distinct.
C26_UniqueIds == \A i, j \in DOMAIN games : games[i].id = games[j].id => i = j

(***************************************************************************)
(* Specification of useGamepad under a consumer that renders with other    *)
(* callbacks: between ticks the config effect stores the new config, and   *)
(* notifications come.                                                     *)
(***************************************************************************)
\* The configs the consumer renders with: every callback, the button
\* callbacks alone, the direction callbacks alone, none.
Configs == {Callbacks, ButtonCallbacks, DirectionCallbacks, {}}

\* What the user works in these runs.
ConfigUses == [button : {BUTTON_A, 4, 12}, stick : {<<0, -10>>, <<10, 0>>}]

ConfigTick ==
    \E gamepads \in OnePadInputs(inUse), handle \in rafQueue :
        /\ CheckGamepad(gamepads, handle)
        /\ ObserveHold(gamepads)
        /\ polled' = [before |-> polled.now,
                      now |-> IF FirstPad(gamepads) = -1 THEN NoPad
                              ELSE gamepads[FirstPad(gamepads)]]
        /\ pressActs' = pressActs
        /\ UNCHANGED <<inUse, tornDown, padVars, padsVars, appVars, lastNav, saveVars, throttledVars,
                       keyboardVars, fileVars>>

\* useEffect(() => { configRef.current = config }, [config]) after a render
\* with another config.
SetConfig ==
    \E config \in Configs \ {configRef} :
        /\ isMounted
        /\ configRef' = config
        /\ fired' = << >>
        /\ tickKind' = "config"
        /\ UNCHANGED <<lastButtonState, lastAxisState, animationFrameId, isMounted,
                       lastGamepadIndex, hasLoggedInit, rafQueue, inUse, tornDown,
                       polledIdx, notified, holdRun, firesInRun, padVars, padsVars, appVars, lastNav,
                       saveVars, throttledVars, keyboardVars, routerVars, fileVars>>

InitConfig == InitHook /\ inUse \in ConfigUses /\ InitAppIdle

NextConfig == ConfigTick \/ SetConfig \/ Notify

SpecConfig == InitConfig /\ [][NextConfig]_vars

(***************************************************************************)
(* Claims about the callbacks and the remembered levels of useGamepad.     *)
(***************************************************************************)
\* The level the hook remembers for the input behind a callback.
Remembered(cb) ==
    CASE cb = "onA" -> At(lastButtonState, BUTTON_A)
      [] cb = "onB" -> At(lastButtonState, BUTTON_B)
      [] cb = "onX" -> At(lastButtonState, BUTTON_X)
      [] cb = "onY" -> At(lastButtonState, BUTTON_Y)
      [] cb = "onStart" -> At(lastButtonState, BUTTON_START)
      [] cb = "onSelect" -> At(lastButtonState, BUTTON_SELECT)
      [] cb = "onUp" -> lastAxisState.up
      [] cb = "onDown" -> lastAxisState.down
      [] cb = "onLeft" -> lastAxisState.left
      [] cb = "onRight" -> lastAxisState.right

\* C27: a tick invokes only callbacks that are supplied; on the tick that reads
\* an input going from inactive to active while its callback is not supplied
\* nothing is invoked for it and its level is remembered as active; and on the
\* later ticks of the same hold nothing is invoked for it, whether or not the
\* callback has been supplied in the meantime.
C27_MissingCallback ==
    tickKind = "continued" =>
        /\ \A k \in DOMAIN fired : fired[k] \in configRef
        /\ \A cb \in Callbacks :
              /\ (holdRun[cb] = 1 /\ cb \notin configRef)
                    => (Count(cb, fired) = 0 /\ Remembered(cb))
              /\ holdRun[cb] >= 2 => Count(cb, fired) = 0

\* A button went down while onA was not supplied and is still held on a tick
\* that runs with onA supplied: onA has not been invoked in this hold.
C27_Witness ==
    /\ tickKind = "continued"
    /\ "onA" \in configRef
    /\ holdRun["onA"] >= 2
    /\ firesInRun["onA"] = 0

\* The callbacks of config whose input is active in snapshot pad and was not
\* in snapshot earlier are invoked once each, and no other callback of config.
FiresTheRises(earlier, pad) ==
    \A cb \in configRef :
        Count(cb, fired) = (IF InputActive(cb, pad) /\ ~InputActive(cb, earlier) THEN 1 ELSE 0)

\* C28: a tick that follows a notification, the pad being in the slot it was
\* in, invokes what the same two snapshots invoke without the notification:
\* the callbacks of the inputs that went from inactive to active, and none
\* for an input held across the notification.
C28_NotificationIndependence ==
    tickKind = "notified" => FiresTheRises(polled.before, polled.now)

\* C29: after a tick that found no pad every remembered level is not-pressed
\* and nothing was invoked; a tick that finds the pad in another slot than the
\* previous tick compares against not-pressed levels only, so it invokes the
\* callback of every input that is active in it, held or not.
C29_EdgeStateReset ==
    /\ tickKind = "absent" =>
          /\ \A cb \in Callbacks : ~Remembered(cb)
          /\ \A i \in DOMAIN lastButtonState : ~lastButtonState[i]
          /\ fired = << >>
    /\ tickKind = "changed" => FiresTheRises(NoPad, polled.now)

\* The pad moved to another slot with a button and the stick held, and the
\* tick invoked the callbacks of both again.
C29_Witness ==
    /\ tickKind = "changed"
    /\ Len(fired) = 2
    /\ polled.before.connected
    /\ polled.before.buttons = polled.now.buttons
    /\ polled.before.axes = polled.now.axes

\* C30: after a tick that processed a pad the remembered level of every button
\* and of every direction is the level that tick read; and a tick with the pad
\* in the same slot and no notification since the previous one invokes exactly
\* the callbacks of the inputs that were inactive in the previous tick's
\* snapshot and are active in this one.
C30_EdgeStateFreshness ==
    /\ tickKind \in PadTicks =>
          /\ lastButtonState = polled.now.buttons
          /\ \A cb \in Callbacks : Remembered(cb) = InputActive(cb, polled.now)
    /\ tickKind = "continued" => FiresTheRises(polled.before, polled.now)

\* A tick read the button and the stick released that the tick before read
\* held, and remembers them released.
C30_Witness ==
    /\ tickKind = "continued"
    /\ \E b \in ButtonCallbacks, d \in DirectionCallbacks :
          /\ InputActive(b, polled.before) /\ ~InputActive(b, polled.now) /\ ~Remembered(b)
          /\ InputActive(d, polled.before) /\ ~InputActive(d, polled.now) /\ ~Remembered(d)

(***************************************************************************)
(* Claims about the poll chains of the on-screen keyboard.                 *)
(***************************************************************************)
\* C31: a step that starts with the overlay hidden sends no command of the
\* keyboard to App: no character, backspace, commit or close.
C31_InertWhileHidden == [][~keyboardVisible => emitted' = << >>]_vars

\* C32: in a frame that began with the overlay open, the key an A edge
\* activates is the key at the cursor as the frame found it.
C32_ActivationAtCursor ==
    kbMove.open =>
        \A i \in DOMAIN emitted :
            emitted[i].by = "A" => emitted[i].key = KeyAt(kbMove.row, kbMove.col)

\* C39: at most one poll chain of the keyboard is live: the chains that have
\* run and the one requested and not yet run are one at most.
C39_SingleChain == Len(kbChains) + Len(kbPending) <= 1

(***************************************************************************)
(* Claims about a load that returns no list.                               *)
(***************************************************************************)
\* C34: a call of loadGamesFromFile or loadLastOpenedFile that returns no
\* list leaves hasOpenFile() as it was before the call.
C34_FailedLoadKeepsTarget ==
    [][(OpenFile \/ Startup) /\ fileOp'.outcome # "loaded"
           => ((openedFile' # NoFile) <=> (openedFile # NoFile))]_vars

(***************************************************************************)
(* Claims about the focus cursor and the overlay under the commands of     *)
(* the pad.                                                                *)
(***************************************************************************)
\* C36: a tick that delivers A, alone or with B or X, leaves focusedIndex as
\* it was, whatever the target at the cursor: open, save, the text input,
\* the add button, a toggle or a delete.
C36_ActivationKeepsFocus ==
    [][\A cbs \in FiredSeqs :
          (/\ cbs[1] = "onA"
           /\ \A i \in DOMAIN cbs : cbs[i] \notin {"onUp", "onDown"}
           /\ GamepadTick(cbs)) => focusedIndex' = focusedIndex]_vars

\* A alone deleted the item at the cursor, which was displayed at another
\* place than it was stored at, and the cursor stayed on the slot, now
\* past the last one.
C36_Witness ==
    /\ lastNav = "onA, displaced item"
    /\ focusedIndex >= totalElements(fileSupported, games)

\* C37: with the overlay open, a tick that delivers any of Up, Down, A and X
\* and not B leaves the cursor, the list and the overlay as they were; and a
\* step that closes the overlay is a tick that delivers B, or the confirm or
\* close key of the keyboard.
C37_OverlayCapturesInput ==
    [][keyboardVisible =>
          /\ \A cbs \in FiredSeqs :
                ((\A i \in DOMAIN cbs : cbs[i] # "onB") /\ GamepadTick(cbs))
                    => UNCHANGED <<focusedIndex, games, keyboardVisible>>
          /\ ~keyboardVisible' =>
                \/ \E cbs \in FiredSeqs :
                      (\E i \in DOMAIN cbs : cbs[i] = "onB") /\ GamepadTick(cbs)
                \/ KeyboardEnter
                \/ KeyboardClose]_vars

\* The overlay is open over a cursor that has a target above and a target
\* below, and the last tick delivered commands other than B.
C37_Witness ==
    /\ lastNav = "captured"
    /\ keyboardVisible
    /\ focusedIndex > 0
    /\ focusedIndex < totalElements(fileSupported, games) - 1

(***************************************************************************)
(* toggleGame and deleteGame on the lists App can hold: the lists of at    *)
(* most MaxItems games, two of which may share an id (a loaded file), and  *)
(* the ids 0 .. MaxId, in the list or not.                                 *)
(***************************************************************************)
ListIds == 0 .. MaxId

ListGames == [id : ListIds, title : {<<"A">>, <<"B">>}, completed : BOOLEAN]

ListInputs == UNION {[1 .. n -> ListGames] : n \in 0 .. MaxItems}

\* What is noted of a call: the handler, and whether the id is the id of no
\* item or of more than one.
ListCall(handler, id) ==
    LET with == {i \in DOMAIN games : games[i].id = id}
    IN  IF with = {} THEN handler \o ", absent id"
        ELSE IF Cardinality(with) > 1 THEN handler \o ", shared id"
        ELSE handler \o ", one item"

ToggleId(id) ==
    /\ id \in ListIds
    /\ AppStep(toggleGame(id, Render, Render), ListCall("toggleGame", id))

DeleteId(id) ==
    /\ id \in ListIds
    /\ AppStep(deleteGame(id, Render, Render), ListCall("deleteGame", id))

ToggleAny == \E id \in ListIds : ToggleId(id)

DeleteAny == \E id \in ListIds : DeleteId(id)

InitList ==
    /\ InitHook
    /\ InitKeyboard
    /\ InitNoDisk
    /\ inUse = [button |-> BUTTON_A, stick |-> <<0, -10>>]
    /\ games \in ListInputs
    /\ inputValue = << >>
    /\ fileSupported = FALSE
    /\ keyboardVisible = FALSE
    /\ focusedIndex = 0
    /\ nextId = MaxId + 1
    /\ lastNav = NoNav
    /\ InitNoFile

NextList == ToggleAny \/ DeleteAny

SpecList == InitList /\ [][NextList]_vars

\* C38: toggleGame(i) flips completed in the items with id i and leaves
\* their id and title, the other items, the length and the order of the list
\* as they were; deleteGame(i) leaves exactly the items whose id is not i, in
\* the order they had; with an id no item has, both leave the list as it was.
C38_OnlyTheirItem ==
    [][\A id \in ListIds :
          /\ ToggleId(id) =>
                /\ Len(games') = Len(games)
                /\ \A k \in DOMAIN games :
                      /\ games'[k].id = games[k].id
                      /\ games'[k].title = games[k].title
                      /\ games'[k].completed =
                            (IF games[k].id = id THEN ~games[k].completed
                                                 ELSE games[k].completed)
          /\ DeleteId(id) =>
                LET kept == {k \in DOMAIN games : games[k].id # id}
                IN  /\ Len(games') = Cardinality(kept)
                    /\ \A k \in kept :
                          games'[Cardinality({j \in kept : j <= k})] = games[k]
          /\ (ToggleId(id) \/ DeleteId(id)) /\ (\A k \in DOMAIN games : games[k].id # id)
                => games' = games]_vars

\* deleteGame removed the one item that had the id and left another in the
\* list.
C38_Witness == lastNav = "deleteGame, one item" /\ Len(games) >= 1

(***************************************************************************)
(* The useGamepad that polls every pad (unnamed/part_001), under App.  It  *)
(* keeps the levels of each pad in a Map keyed by the slot, and invokes    *)
(* the callbacks of configRef for each pad in turn.  It shares configRef,  *)
(* isMounted, animationFrameId and the frame queue with the hook above.    *)
(***************************************************************************)
\* The levels the edge comparison of a tick is made against for the pad of
\* slot i: those the Map holds, or the ones set when it holds none.
WasButtons(gamepads, i) ==
    IF i \in DOMAIN lastButtonStates
    THEN lastButtonStates[i]
    ELSE [k \in 1 .. Len(gamepads[i].buttons) |-> FALSE]

WasAxes(i) == IF i \in DOMAIN lastAxisStates THEN lastAxisStates[i] ELSE NoAxisState

\* What the body of the loop invokes for slot i: the button callbacks, then
\* the directions.
PadFires(gamepads, i) ==
    IF ~gamepads[i].connected
    THEN << >>
    ELSE ButtonLoop(gamepads[i].buttons, WasButtons(gamepads, i), configRef, 0)
         \o DirectionEdges(Directions(gamepads[i]), WasAxes(i), configRef)

\* for (let i = 0; i < gamepads.length; i++), from slot i on.
RECURSIVE PadLoop(_, _)
PadLoop(gamepads, i) ==
    IF i >= NumSlots THEN << >> ELSE PadFires(gamepads, i) \o PadLoop(gamepads, i + 1)

\* The slots whose state the loop deletes (resetGamepadState): they held a pad
\* at the last tick and hold none now.
Disconnected(gamepads) == {i \in connectedGamepads : ~gamepads[i].connected}

Connected(gamepads) == {i \in Slots : gamepads[i].connected}

\* checkGamepad of the hook that polls every pad.
PadsCheckGamepad(gamepads, handle) ==
    /\ handle \in rafQueue
    /\ IF Stopped
       THEN /\ rafQueue' = rafQueue \ {handle}
            /\ fired' = << >>
            /\ UNCHANGED <<animationFrameId, hasLoggedInit, padsVars>>
       ELSE LET next == FreshHandle(rafQueue \ {handle}, animationFrameId)
                kept == (DOMAIN lastButtonStates) \ Disconnected(gamepads)
            IN  /\ hasLoggedInit' = TRUE
                /\ lastButtonStates' =
                      [i \in kept \cup Connected(gamepads) |->
                          IF gamepads[i].connected
                          THEN StoredButtons(gamepads[i].buttons, WasButtons(gamepads, i))
                          ELSE lastButtonStates[i]]
                /\ lastAxisStates' =
                      [i \in ((DOMAIN lastAxisStates) \ Disconnected(gamepads))
                               \cup Connected(gamepads) |->
                          IF gamepads[i].connected
                          THEN Directions(gamepads[i])
                          ELSE lastAxisStates[i]]
                /\ connectedGamepads' =
                      (connectedGamepads \ Disconnected(gamepads)) \cup Connected(gamepads)
                /\ fired' = PadLoop(gamepads, 0)
                /\ animationFrameId' = next
                /\ rafQueue' = (rafQueue \ {handle}) \cup {next}
    /\ UNCHANGED <<lastButtonState, lastAxisState, configRef, isMounted, lastGamepadIndex>>

\* The pads of a tick: one in slot 0 on which A and Down are used, and none
\* or one in slot 1 on which A is used.
FirstPads == {PadWith(s, <<0, 0>>) : s \in SUBSET {BUTTON_A, 13}}

SecondPads == {NoPad} \cup {PadWith(s, <<0, 0>>) : s \in SUBSET {BUTTON_A}}

PadsInputs == {[NoPads EXCEPT ![0] = p0, ![1] = p1] : p0 \in FirstPads, p1 \in SecondPads}

\* A tick of the hook, and App under the callbacks it invokes: they are the
\* callbacks of one render, and React commits what they set after the tick.
PadsTick ==
    \E gamepads \in PadsInputs, handle \in rafQueue :
        /\ PadsCheckGamepad(gamepads, handle)
        /\ HasId(Deliver(fired', Render, Render))
        /\ Commit(Deliver(fired', Render, Render))
        /\ AutoSave(Deliver(fired', Render, Render).games,
                    Deliver(fired', Render, Render).games # games, fileHandle)
        /\ lastNav' = NoNav
        /\ UNCHANGED <<inUse, tornDown, holdVars, padVars, throttledVars, keyboardVars,
                       routerVars, fileVars, appMounted, fileHandle, fileContent, now,
                       saves>>

InitPads == InitApp /\ ~fileSupported /\ inputValue = << >>

NextPads == PadsTick \/ ChangeInput \/ KeyboardClose

SpecPads == InitPads /\ [][NextPads]_vars

(***************************************************************************)
(* Claims about list mutations dispatched before a render.                 *)
(***************************************************************************)
\* C35: a tick that invokes onA n times with the overlay closed applies n
\* mutations to the list: on the add button with a title typed, the list is
\* n games longer; on the toggle of an item, the item's flag is flipped n
\* times and the other items are as they were.
C35_NoLostUpdates ==
    [][(~keyboardVisible /\ PadsTick) =>
        LET n == Count("onA", fired')
            first == IF fileSupported THEN 2 ELSE 0
            shown == SelectSeq(games, LAMBDA g : ~g.completed)
                     \o SelectSeq(games, LAMBDA g : g.completed)
            slot == focusedIndex - first - 2
            item == shown[(slot \div 2) + 1]
        IN  IF focusedIndex = first + 1 /\ Trim(inputValue) # << >>
            THEN Len(games') = Len(games) + n
            ELSE IF slot >= 0 /\ slot < 2 * Len(shown) /\ slot % 2 = 0
            THEN /\ Len(games') = Len(games)
                 /\ \A k \in DOMAIN games :
                       games'[k].completed =
                          (IF games[k].id = item.id /\ n % 2 = 1
                           THEN ~games[k].completed
                           ELSE games[k].completed)
            ELSE TRUE]_vars

(***************************************************************************)
(* A display frame under App with the keyboard mounted.  The host runs the *)
(* frame callbacks in the order they were requested: checkGamepad of       *)
(* useGamepad, whose chain starts at the mount, then the poll chains of    *)
(* the keyboard, and React commits what they set after the frame.          *)
(***************************************************************************)
\* What the user works in one run: A or B, and the stick pushed right.
FrameUses == [button : {BUTTON_A, BUTTON_B}, stick : {<<10, 0>>}]

\* What the press of A has set off, this frame included: onA of App if it
\* set a state, and the keys the keyboard activated.
ObservePress(pad, u, out) ==
    LET routed == IF Count("onA", fired') > 0 /\ u # Render THEN 1 ELSE 0
        typed == Len(SelectSeq(out, LAMBDA e : e.by = "A"))
        before == IF At(polled.now.buttons, BUTTON_A) THEN pressActs ELSE 0
    IN  IF At(pad.buttons, BUTTON_A) THEN Min(2, before + routed + typed) ELSE 0

Frame ==
    \E pad \in UsedSnapshots(inUse), handle \in rafQueue :
        LET u0 == Deliver(fired', Render, Render)
            st0 == [row |-> selectedRow, col |-> selectedCol, u |-> u0,
                    dpad |-> lastDpadRef, a |-> lastARef, b |-> lastBRef, out |-> << >>]
            st == KeyboardFrame(kbChains \o kbPending, st0, pad)
        IN  /\ appMounted
            /\ Len(inputValue) <= MaxTyped
            /\ CheckGamepad([NoPads EXCEPT ![0] = pad], handle)
            /\ lastDpadRef' = st.dpad
            /\ lastARef' = st.a
            /\ lastBRef' = st.b
            /\ emitted' = st.out
            /\ kbRun' = ObserveRun(pad, st.out)
            /\ kbMove' = ObserveMove(pad)
            /\ kbChains' = Tracked(kbChains \o kbPending)
            /\ KeyboardCommit(st.row, st.col, st.u, << >>)
            /\ polled' = [before |-> polled.now, now |-> pad]
            /\ pressActs' = ObservePress(pad, u0, st.out)
            /\ lastNav' = NoNav
            /\ UNCHANGED <<inUse, tornDown, holdVars, padVars, padsVars, throttledVars,
                           appMounted, fileHandle, fileContent, now, saves, fileVars>>

InitFrame == InitHook /\ inUse \in FrameUses /\ InitAppIdle

NextFrame == Frame \/ ClickKey

SpecFrame == InitFrame /\ [][NextFrame]_vars

(***************************************************************************)
(* Claims about one press of A under the input router and the keyboard.    *)
(***************************************************************************)
\* C33: a press of A sets off one action at most, counting what onA of App
\* does and the keys the keyboard activates, from the frame that reads A
\* down to the frame that reads it up.
C33_OnePressOneAction == pressActs <= 1

=============================================================================
